---- MODULE Spec2Model ----
(***************************************************************************)
(* A model of the fixed-capacity vector of bluss/arrayvec: the buffer of   *)
(* CAP slots `xs`, the length `len`, and the operations of ArrayVecImpl    *)
(* (arrayvec_impl.rs) and ArrayVecCopy (arrayvec_copy.rs).                 *)
(*                                                                         *)
(* Memory is modelled slot by slot.  xs[i] is the value slot i owns, or     *)
(* Uninit when the slot owns none: memory that was never written, and a    *)
(* slot whose value was moved out or dropped (its bits are indeterminate   *)
(* from then on).  ptr::write makes a slot live, ptr::read and             *)
(* drop_in_place make it dead, ptr::copy moves the values with the bits.   *)
(* A primitive that touches a slot it must not touch (a read or drop of a  *)
(* dead slot, a write over a live one, an access outside the buffer)       *)
(* records the violation in `fault`.                                       *)
(***************************************************************************)
EXTENDS Integers, Sequences, FiniteSets, TLC

\* capacity of the modelled vector (the const generic CAP)
CAP == 3
\* element values are 1..MaxVal
MaxVal == 2
\* longest slice / iterator handed to the extend operations
MaxExt == 2
\* the number of values made for push in the drop-counting runs
MaxTok == 4
\* how far from 0 and from the MAX of a length type the capacities go, and
\* how far from 0 and from the capacity the lengths
CapSlack == 3
\* the most items a parallel iterator has
MaxPar == 3

CAPACITY == CAP
Uninit == 0
Values == 1..MaxVal
Slots == 0..(CAP - 1)
\* index arguments tried by the operations: in range, == len, and past CAP
Indices == 0..(CAP + 1)

VARIABLES
    xs,        \* [Slots -> Values \cup {Uninit}] : the buffer
    len,       \* the length field
    fault,     \* ghost, set of memory-discipline violations seen so far
    dropped,   \* ghost, slot indices dropped in place by the current operation
    pc,        \* "idle", or the operation that is in progress
    op,        \* ghost, the operation called last and its arguments
    pre,       \* ghost, the live slice when that operation was called
               \* (during retain: with each element as the predicate left it)
    ret,       \* what the operation returned
    new_len,   \* pop: the local new_len
    drain,     \* the fields of the Drain value while one exists
    g,         \* retain: the fields of the BackshiftOnDrop guard
    iter_index, \* IntoIter: the field index (the vector is its field v)
    yielded,   \* ghost, what the Drain handed out so far from the front
               \* and from the back (retain: front is what was kept so far)
    visits,    \* ghost, retain: the calls of the predicate so far, each
               \* with the index it was given and what it answered
    last_insert, \* ghost of the round-trip runs: the insert that went
               \* before, its arguments and the slice it found
    life,      \* ghost, ArrayVec<A> of lib.rs: for every value made for
               \* push, where it went and who dropped it how often
    lentype,   \* the type parameters LenType (its width in bits) and CAP
               \* of the container in the runs on the length type
    bits,      \* the runs on two vectors: what the memory of the buffer
               \* holds, slot by slot, whether the slot owns a value or not
    rhs,       \* the runs on two vectors: the second vector, its memory
               \* and its length
    holder,    \* the runs on NoDrop: for every value made, the NoDrop it
               \* was wrapped in: in scope or not, and its flag
    par        \* a par_extend under way: the consumers the bridge of rayon
               \* has made by splitting, each with its piece of the target
               \* and of the items, and the results of those that are done

vars == <<xs, len, fault, dropped, pc, op, pre, ret, new_len, drain, g,
          iter_index, yielded, visits, last_insert, life, lentype, bits, rhs, holder, par>>

-----------------------------------------------------------------------------
(* The vector as a value, and the raw-memory primitives.                    *)

Cur == [xs |-> xs, len |-> len, fault |-> fault, dropped |-> dropped]

\* slot i owns a value
Live(s, i) == s.xs[i] # Uninit

\* as_slice / Deref: the slice view over [0, len)
as_slice(s) == [i \in 1..s.len |-> s.xs[i - 1]]

Fault(s, f) == [s EXCEPT !.fault = @ \cup {f}]

\* ptr::write(as_mut_ptr().add(i), x)
ptr_write(s, i, x) ==
    IF i \notin Slots THEN Fault(s, "write_out_of_buffer")
    ELSE LET t == [s EXCEPT !.xs[i] = x]
         IN  IF Live(s, i) THEN Fault(t, "overwrite_live") ELSE t

\* ptr::read(as_ptr().add(i)): the value moves out of the slot
ptr_read(s, i) ==
    IF i \notin Slots THEN Fault(s, "read_out_of_buffer")
    ELSE LET t == [s EXCEPT !.xs[i] = Uninit]
         IN  IF Live(s, i) THEN t ELSE Fault(t, "read_dead")

\* the value ptr::read hands out
read_val(s, i) == IF i \in Slots THEN s.xs[i] ELSE Uninit

\* ptr::drop_in_place of one slot
drop_slot(s, i) ==
    IF i \notin Slots THEN Fault(s, "drop_out_of_buffer")
    ELSE LET t == [s EXCEPT !.xs[i] = Uninit, !.dropped = Append(@, i)]
         IN  IF Live(s, i) THEN t ELSE Fault(t, "drop_dead")

\* ptr::drop_in_place(slice [from, from + n)): element by element, in order
RECURSIVE drop_in_place(_, _, _)
drop_in_place(s, from, n) ==
    IF n <= 0 THEN s
    ELSE drop_in_place(drop_slot(s, from), from + 1, n - 1)

\* ptr::copy(src, dst, n): memmove of n slots.  The values move with the
\* bits, so a source slot the destination does not cover is dead afterwards.
ptr_copy(s, src, dst, n) ==
    IF n < 0 THEN Fault(s, "copy_negative_count")
    ELSE IF n = 0 THEN s
    ELSE IF src < 0 \/ dst < 0 \/ src + n > CAP \/ dst + n > CAP
         THEN Fault(s, "copy_out_of_buffer")
    ELSE LET inDst(i) == dst <= i /\ i < dst + n
             inSrc(i) == src <= i /\ i < src + n
             lost == \E i \in Slots : inDst(i) /\ ~inSrc(i) /\ Live(s, i)
             t == [s EXCEPT
                     !.xs = [i \in Slots |->
                               IF inDst(i) THEN s.xs[i - dst + src]
                               ELSE IF inSrc(i) THEN Uninit ELSE s.xs[i]]]
         IN  IF lost THEN Fault(t, "overwrite_live") ELSE t

\* set_len: debug_assert!(length <= CAP); self.len = length
set_len(s, length) ==
    IF length > CAP \/ length < 0
    THEN Fault([s EXCEPT !.len = length], "len_out_of_range")
    ELSE [s EXCEPT !.len = length]

-----------------------------------------------------------------------------
(* Return values.                                                           *)

Ok == [kind |-> "Ok", val |-> Uninit]
Err(x) == [kind |-> "Err", val |-> x]
Some(x) == [kind |-> "Some", val |-> x]
None == [kind |-> "None", val |-> Uninit]
Panic == [kind |-> "Panic", val |-> Uninit]
Pending == [kind |-> "Pending", val |-> Uninit]

Res(s, r) == [s |-> s, ret |-> r]

-----------------------------------------------------------------------------
(* ArrayVecImpl: push, try_push, push_unchecked, pop, truncate, clear.      *)

\* push_unchecked that forgets to advance the length
push_unchecked_no_len(s, element) == ptr_write(s, s.len, element)

push_unchecked(s, element) ==
    LET l == s.len
    IN  set_len(ptr_write(s, l, element), l + 1)

\* try_push without the capacity check
try_push_unchecked(s, element) ==
    Res(set_len(ptr_write(s, s.len, element), s.len + 1), Ok)

try_push(s, element) ==
    IF s.len < CAPACITY
    THEN Res(push_unchecked(s, element), Ok)
    ELSE Res(s, Err(element))

\* Result::unwrap: an Err becomes a panic
unwrap(r) == IF r.ret.kind = "Err" THEN Res(r.s, Panic) ELSE r

push(s, element) == unwrap(try_push(s, element))

\* pop that has not yet decremented the length when it reads the element
pop_set_len_late(s) == s

\* pop, first half: new_len = len - 1; set_len(new_len)
pop_set_len(s) == set_len(s, s.len - 1)

\* pop, second half: Some(ptr::read(as_ptr().add(new_len)))
pop_read(s, nl) == Res(ptr_read(s, nl), Some(read_val(s, nl)))

pop(s) ==
    IF s.len = 0 THEN Res(s, None)
    ELSE pop_read(pop_set_len(s), s.len - 1)

\* truncate that drops the tail but leaves the length as it was
truncate_keep_len(s, nl) ==
    IF nl < s.len THEN drop_in_place(s, nl, s.len - nl) ELSE s

\* truncate, first half: self.set_len(new_len)
truncate_set_len(s, nl) == set_len(s, nl)

\* a drop of the tail that starts at its last slot
RECURSIVE truncate_drop_tail_backwards(_, _, _)
truncate_drop_tail_backwards(s, nl, l) ==
    IF l <= nl THEN s
    ELSE truncate_drop_tail_backwards(drop_slot(s, l - 1), nl, l - 1)

\* truncate, second half: ptr::drop_in_place of the tail [new_len, len)
truncate_drop_tail(s, nl, l) == drop_in_place(s, nl, l - nl)

truncate(s, nl) ==
    LET l == s.len
    IN  IF nl < l THEN truncate_drop_tail(truncate_set_len(s, nl), nl, l)
        ELSE s

clear(s) == truncate(s, 0)

-----------------------------------------------------------------------------
(* ArrayVecCopy: insert, swap_pop, drain, pop_at, retain, extend.           *)

\* panic_oob!: the operation unwinds, the vector is as it was
panic_oob(s) == Res(s, Panic)

\* try_insert as the historical insert did it: a full vector pops its last
\* element to make room and returns that one as the error
try_insert_evict(s, index, element) ==
    IF index > s.len THEN Res(s, Panic)
    ELSE IF index = CAPACITY THEN Res(s, Err(element))
    ELSE LET full == s.len = CAPACITY
             s0 == IF full THEN ptr_read(set_len(s, s.len - 1), s.len - 1) ELSE s
             l == s0.len
             s1 == ptr_copy(s0, index, index + 1, l - index)
             s2 == ptr_write(s1, index, element)
         IN  Res(set_len(s2, l + 1),
                 IF full THEN Err(s.xs[s.len - 1]) ELSE Ok)

\* try_insert whose bounds check also rejects index == len
try_insert_strict_bound(s, index, element) ==
    IF index >= s.len THEN Res(s, Panic)
    ELSE IF s.len = CAPACITY THEN Res(s, Err(element))
    ELSE LET l == s.len
             s1 == ptr_copy(s, index, index + 1, l - index)
             s2 == ptr_write(s1, index, element)
         IN  Res(set_len(s2, l + 1), Ok)

\* try_insert that looks at the capacity before it looks at the index
try_insert_capacity_first(s, index, element) ==
    IF s.len = CAPACITY THEN Res(s, Err(element))
    ELSE IF index > s.len THEN panic_oob(s)
    ELSE LET l == s.len
             s1 == ptr_copy(s, index, index + 1, l - index)
             s2 == ptr_write(s1, index, element)
         IN  Res(set_len(s2, l + 1), Ok)

try_insert(s, index, element) ==
    IF index > s.len THEN panic_oob(s)
    ELSE IF s.len = CAPACITY THEN Res(s, Err(element))
    ELSE LET l == s.len
             s1 == ptr_copy(s, index, index + 1, l - index)
             s2 == ptr_write(s1, index, element)
         IN  Res(set_len(s2, l + 1), Ok)

insert(s, index, element) == unwrap(try_insert(s, index, element))

\* <[T]>::swap(a, b) through deref_mut: both indices are bounds-checked
\* against the slice [0, len)
slice_swap(s, a, b) ==
    [s EXCEPT !.xs = [@ EXCEPT ![a] = s.xs[b], ![b] = s.xs[a]]]

\* a swap_pop that pops the last element without the swap
swap_pop_no_swap(s, index) ==
    IF index >= s.len THEN Res(s, None) ELSE pop(s)

swap_pop(s, index) ==
    LET l == s.len
    IN  IF index >= l THEN Res(s, None)
        ELSE pop(slice_swap(s, index, l - 1))

\* Option::unwrap_or_else(|| panic_oob!(..))
unwrap_or_oob(r) == IF r.ret.kind = "None" THEN Res(r.s, Panic) ELSE r

swap_remove(s, index) == unwrap_or_oob(swap_pop(s, index))

\* The Drain value: the preserved tail and the slice iterator [lo, hi)
NoDrain == [tail_start |-> 0, tail_len |-> 0, lo |-> 0, hi |-> 0]

DRes(s, d, r) == [s |-> s, d |-> d, ret |-> r]

\* drain_range that leaves the owner's length alone
drain_range_keep_len(s, start, end) ==
    IF start > end \/ end > s.len THEN DRes(s, NoDrain, Panic)
    ELSE DRes(s, [tail_start |-> end, tail_len |-> s.len - end,
                  lo |-> start, hi |-> end], Pending)

\* drain_range that changes the length before the bounds check
drain_range_check_late(s, start, end) ==
    IF start > end \/ end > s.len
    THEN DRes([s EXCEPT !.len = start], NoDrain, Panic)
    ELSE DRes([s EXCEPT !.len = start],
              [tail_start |-> end, tail_len |-> s.len - end,
               lo |-> start, hi |-> end], Pending)

\* drain_range: &self[start..end] is the bounds check (it panics), then
\* self.len = start
drain_range(s, start, end) ==
    LET l == s.len
    IN  IF start > end \/ end > l THEN DRes(s, NoDrain, Panic)
        ELSE DRes([s EXCEPT !.len = start],
                  [tail_start |-> end, tail_len |-> l - end,
                   lo |-> start, hi |-> end],
                  Pending)

\* Drain::next: iter.next().map(|elt| ptr::read(elt))
drain_next(s, d) ==
    IF d.lo = d.hi THEN DRes(s, d, None)
    ELSE DRes(ptr_read(s, d.lo), [d EXCEPT !.lo = @ + 1],
              Some(read_val(s, d.lo)))

\* Drain::next_back: iter.next_back().map(|elt| ptr::read(elt))
drain_next_back(s, d) ==
    IF d.lo = d.hi THEN DRes(s, d, None)
    ELSE DRes(ptr_read(s, d.hi - 1), [d EXCEPT !.hi = @ - 1],
              Some(read_val(s, d.hi - 1)))

\* Drop for Drain, first part: while let Some(_) = self.next() { }
\* each value read out is dropped at once
RECURSIVE drain_exhaust(_, _)
drain_exhaust(s, d) ==
    IF d.lo = d.hi THEN DRes(s, d, None)
    ELSE drain_exhaust(drop_slot(s, d.lo), [d EXCEPT !.lo = @ + 1])

\* the tail moved from where the slice iterator ended, not from tail_start
drain_move_tail_from_iter_end(s, d) ==
    IF d.tail_len > 0
    THEN set_len(ptr_copy(s, d.hi, s.len, d.tail_len), s.len + d.tail_len)
    ELSE s

\* Drop for Drain, second part: move the tail back and restore the length
drain_move_tail(s, d) ==
    IF d.tail_len > 0
    THEN LET start == s.len
             tail == d.tail_start
         IN  set_len(ptr_copy(s, tail, start, d.tail_len), start + d.tail_len)
    ELSE s

drain_drop(s, d) ==
    LET e == drain_exhaust(s, d)
    IN  drain_move_tail(e.s, e.d)

\* pop_at: drain(index..index + 1).next(); the temporary Drain is dropped
\* at the end of the statement
\* a pop_at whose bounds test lets index == len through
pop_at_loose_bound(s, index) ==
    IF index > s.len THEN Res(s, None)
    ELSE LET dr == drain_range(s, index, index + 1)
         IN  IF dr.ret.kind = "Panic" THEN Res(dr.s, Panic)
             ELSE LET nx == drain_next(dr.s, dr.d)
                  IN  Res(drain_drop(nx.s, nx.d), nx.ret)

pop_at(s, index) ==
    IF index >= s.len THEN Res(s, None)
    ELSE LET dr == drain_range(s, index, index + 1)
             nx == drain_next(dr.s, dr.d)
         IN  Res(drain_drop(nx.s, nx.d), nx.ret)

\* a remove that fills the gap with the last element
remove_by_swap(s, index) == swap_remove(s, index)

remove(s, index) == unwrap_or_oob(pop_at(s, index))

\* try_extend_from_slice: copy_nonoverlapping of the whole slice, then one
\* set_len
RECURSIVE copy_from_slice(_, _, _)
copy_from_slice(s, dst, other) ==
    IF other = <<>> THEN s
    ELSE copy_from_slice(ptr_write(s, dst, Head(other)), dst + 1, Tail(other))

\* a try_extend_from_slice that appends what fits before it reports the error
try_extend_from_slice_partial(s, other) ==
    LET self_len == s.len
        room == CAPACITY - s.len
    IN  IF room < Len(other)
        THEN Res(set_len(copy_from_slice(s, self_len, SubSeq(other, 1, room)),
                         self_len + room), Err(Uninit))
        ELSE Res(set_len(copy_from_slice(s, self_len, other),
                         self_len + Len(other)), Ok)

try_extend_from_slice(s, other) ==
    IF CAPACITY - s.len < Len(other) THEN Res(s, Err(Uninit))
    ELSE LET self_len == s.len
             other_len == Len(other)
         IN  Res(set_len(copy_from_slice(s, self_len, other),
                         self_len + other_len), Ok)

remaining_capacity(s) == CAPACITY - s.len

min(a, b) == IF a <= b THEN a ELSE b

\* a write that refuses data that does not fit as a whole
write_all_or_nothing(s, data) ==
    IF Len(data) > remaining_capacity(s) THEN Res(s, Err(Uninit))
    ELSE Res(try_extend_from_slice(s, data).s,
             [kind |-> "Ok", val |-> Len(data)])

\* io::Write for ArrayVecCopy<u8, CAP>: write.  The debug_assert on the
\* result of try_extend_from_slice is recorded in fault.
write(s, data) ==
    LET l == min(remaining_capacity(s), Len(data))
        _result == try_extend_from_slice(s, SubSeq(data, 1, l))
    IN  Res(IF _result.ret = Ok THEN _result.s
            ELSE Fault(_result.s, "write_result_not_ok"),
            [kind |-> "Ok", val |-> l])

\* extend_from_iter::<_, CHECK>: `iter` is what the iterator yields,
\* panic_at the number of items after which its next() panics (-1: never).
\* `ptr` and `data` are the locals of the loop; the ScopeExitGuard writes
\* data to len on every way out.
\* a loop whose capacity check fires one element early
RECURSIVE extend_loop_check_early(_, _, _, _, _, _, _)
extend_loop_check_early(s, ptr, end_ptr, data, check, iter, panic_at) ==
    IF panic_at = 0 THEN Res([s EXCEPT !.len = data], Panic)
    ELSE IF iter = <<>> THEN Res([s EXCEPT !.len = data], Ok)
    ELSE IF ptr + 1 >= end_ptr /\ check THEN Res([s EXCEPT !.len = data], Panic)
    ELSE extend_loop_check_early(ptr_write(s, ptr, Head(iter)), ptr + 1,
                                 end_ptr, data + 1, check, Tail(iter),
                                 panic_at - 1)

\* a loop without the guard: the length is written on the return only
RECURSIVE extend_loop_no_guard(_, _, _, _, _, _, _)
extend_loop_no_guard(s, ptr, end_ptr, data, check, iter, panic_at) ==
    IF panic_at = 0 THEN Res(s, Panic)
    ELSE IF iter = <<>> THEN Res([s EXCEPT !.len = data], Ok)
    ELSE IF ptr = end_ptr /\ check THEN Res(s, Panic)
    ELSE extend_loop_no_guard(ptr_write(s, ptr, Head(iter)), ptr + 1, end_ptr,
                              data + 1, check, Tail(iter), panic_at - 1)

RECURSIVE extend_loop(_, _, _, _, _, _, _)
extend_loop(s, ptr, end_ptr, data, check, iter, panic_at) ==
    IF panic_at = 0 THEN Res([s EXCEPT !.len = data], Panic)
    ELSE IF iter = <<>> THEN Res([s EXCEPT !.len = data], Ok)
    ELSE IF ptr = end_ptr /\ check THEN Res([s EXCEPT !.len = data], Panic)
    ELSE extend_loop(ptr_write(s, ptr, Head(iter)), ptr + 1, end_ptr,
                     data + 1, check, Tail(iter), panic_at - 1)

extend_from_iter(s, check, iter, panic_at) ==
    LET take == CAPACITY - s.len
        l == s.len
    IN  extend_loop(s, l, l + take, l, check, iter, panic_at)

extend(s, iter, panic_at) == extend_from_iter(s, TRUE, iter, panic_at)

\* Drain::fill of splice.rs: the slots from vec.len to tail_start are filled
\* from replace_with as far as it has items; true if the whole range was
\* filled.  rest is what replace_with still holds
RECURSIVE fill(_, _, _)
fill(s, d, replace_with) ==
    IF s.len >= d.tail_start
    THEN [s |-> s, rest |-> replace_with, filled |-> TRUE]
    ELSE IF replace_with = <<>>
    THEN [s |-> s, rest |-> replace_with, filled |-> FALSE]
    ELSE fill(set_len(ptr_write(s, s.len, Head(replace_with)), s.len + 1),
              d, Tail(replace_with))

\* Drop for Splice, and the Drop of its field drain after it (the Drain is
\* exhausted by then, so that one moves the tail).  size_hint of the items
\* is exact; the debug_asserts panic in a build with debug assertions
splice_drop(s, d, replace_with, build) ==
    LET e == drain_exhaust(s, d)
    IN  IF e.d.tail_len = 0
        THEN extend(e.s, replace_with, -1)
        ELSE LET f1 == fill(e.s, e.d, replace_with)
                 lower_bound == Len(f1.rest)
                 f2 == IF lower_bound > 0 THEN fill(f1.s, e.d, f1.rest) ELSE f1
                 collected == f2.rest
                 f3 == fill(f2.s, e.d, collected)
             IN  IF ~f1.filled THEN Res(drain_move_tail(f1.s, e.d), Ok)
                 ELSE IF ~f2.filled THEN Res(drain_move_tail(f2.s, e.d), Ok)
                 ELSE IF Len(collected) = 0
                 THEN Res(drain_move_tail(f2.s, e.d), Ok)
                 ELSE IF build = "debug" /\ (~f3.filled \/ Len(f3.rest) # 0)
                 THEN Res(drain_move_tail(f3.s, e.d), Panic)
                 ELSE Res(drain_move_tail(f3.s, e.d), Ok)

\* ptr::read of the whole array: every slot from i on moves out
RECURSIVE read_array(_, _)
read_array(s, i) ==
    IF i >= CAPACITY THEN s ELSE read_array(ptr_read(s, i), i + 1)

\* into_inner_unchecked: the array is read out of a ManuallyDrop, which
\* never drops what is left behind
into_inner_unchecked(s) ==
    Res(read_array(s, 0),
        [kind |-> "Ok", val |-> [i \in 1..CAPACITY |-> read_val(s, i - 1)]])

\* an into_inner that does not look at the length
into_inner_no_check(s) == into_inner_unchecked(s)

\* into_inner: Err(self) unless full
into_inner(s) ==
    IF s.len < CAPACITY THEN Res(s, Err(as_slice(s)))
    ELSE into_inner_unchecked(s)

IRes(s, i, r) == [s |-> s, index |-> i, ret |-> r]

\* a next that hands out the element but stays where it is
into_iter_next_no_advance(s, i) ==
    IF i = s.len THEN IRes(s, i, None)
    ELSE IRes(ptr_read(s, i), i, Some(read_val(s, i)))

\* IntoIter::next
into_iter_next(s, i) ==
    IF i = s.len THEN IRes(s, i, None)
    ELSE IRes(ptr_read(s, i), i + 1, Some(read_val(s, i)))

\* IntoIter::next_back
into_iter_next_back(s, i) ==
    IF i = s.len THEN IRes(s, i, None)
    ELSE LET nl == s.len - 1
         IN  IRes(ptr_read(set_len(s, nl), nl), i, Some(read_val(s, nl)))

\* IntoIter::size_hint
into_iter_size_hint(s, i) ==
    LET l == s.len - i
    IN  <<l, Some(l)>>

\* Drop for IntoIter: set_len(0), then drop [index, len)
into_iter_drop(s, i) ==
    LET l == s.len
    IN  drop_in_place(set_len(s, 0), i, l - i)

\* retain: the BackshiftOnDrop guard
NoGuard == [processed_len |-> 0, deleted_cnt |-> 0, original_len |-> 0]

\* a guard that restores the length but does not close the gap
backshift_on_drop_no_copy(s, gd) == set_len(s, gd.original_len - gd.deleted_cnt)

\* Drop for BackshiftOnDrop
backshift_on_drop(s, gd) ==
    LET s1 == IF gd.deleted_cnt > 0
              THEN ptr_copy(s, gd.processed_len,
                            gd.processed_len - gd.deleted_cnt,
                            gd.original_len - gd.processed_len)
              ELSE s
    IN  set_len(s1, gd.original_len - gd.deleted_cnt)

\* retain up to the loop: original_len = len; set_len(0); the guard
retain_begin(s) ==
    [s |-> set_len(s, 0),
     g |-> [processed_len |-> 0, deleted_cnt |-> 0, original_len |-> s.len]]

\* the predicate's &mut T: it may store a new value in the element
deref_mut_store(s, i, nv) ==
    IF i \in Slots /\ Live(s, i) THEN [s EXCEPT !.xs[i] = nv]
    ELSE Fault(s, "reference_to_dead")

\* a turn that leaves a kept element where it was, over the hole
retain_turn_no_shift(s, gd, verdict, nv) ==
    LET cur == gd.processed_len
        s0 == deref_mut_store(s, cur, nv)
    IN  IF verdict = "panic"
        THEN [s |-> backshift_on_drop(s0, gd), g |-> gd]
        ELSE IF verdict = "delete"
        THEN [s |-> drop_slot(s0, cur),
              g |-> [gd EXCEPT !.processed_len = @ + 1, !.deleted_cnt = @ + 1]]
        ELSE [s |-> s0, g |-> [gd EXCEPT !.processed_len = @ + 1]]

\* a turn that counts a rejected element but does not drop it
retain_turn_no_drop(s, gd, verdict, nv) ==
    LET cur == gd.processed_len
        s0 == deref_mut_store(s, cur, nv)
    IN  IF verdict = "panic"
        THEN [s |-> backshift_on_drop(s0, gd), g |-> gd]
        ELSE IF verdict = "delete"
        THEN [s |-> s0,
              g |-> [gd EXCEPT !.processed_len = @ + 1, !.deleted_cnt = @ + 1]]
        ELSE [s |-> IF gd.deleted_cnt > 0
                    THEN ptr_copy(s0, cur, cur - gd.deleted_cnt, 1)
                    ELSE s0,
              g |-> [gd EXCEPT !.processed_len = @ + 1]]

\* one turn of the retain loop.  verdict is what f(&mut *cur) did after
\* leaving nv in the element: "keep", "delete" or "panic" (the guard then
\* runs while unwinding).
retain_turn(s, gd, verdict, nv) ==
    LET cur == gd.processed_len
        s0 == deref_mut_store(s, cur, nv)
    IN  IF verdict = "panic"
        THEN [s |-> backshift_on_drop(s0, gd), g |-> gd]
        ELSE IF verdict = "delete"
        THEN [s |-> drop_slot(s0, cur),
              g |-> [gd EXCEPT !.processed_len = @ + 1, !.deleted_cnt = @ + 1]]
        ELSE [s |-> IF gd.deleted_cnt > 0
                    THEN ptr_copy(s0, cur, cur - gd.deleted_cnt, 1)
                    ELSE s0,
              g |-> [gd EXCEPT !.processed_len = @ + 1]]

-----------------------------------------------------------------------------
(* ArrayVec<A> of lib.rs, the vector of elements that have destructors:     *)
(* push, pop and Drop.                                                      *)

\* a push that drops the element of a full vector instead of returning it
lib_push_swallow(s, element) ==
    IF s.len < CAPACITY
    THEN Res(set_len(ptr_write(s, s.len, element), s.len + 1), None)
    ELSE Res(s, None)

\* ArrayVec::push: None if the push succeeds, Some(element) if full
lib_push(s, element) ==
    IF s.len < CAPACITY
    THEN LET l == s.len
         IN  Res(set_len(ptr_write(s, l, element), l + 1), None)
    ELSE Res(s, Some(element))

\* ArrayVec::pop
lib_pop(s) ==
    IF s.len = 0 THEN Res(s, None)
    ELSE LET nl == s.len - 1
         IN  Res(ptr_read(set_len(s, nl), nl), Some(read_val(s, nl)))

\* the value pop returned goes out of scope: its slot of origin is logged
drop_popped(s, i) == [s EXCEPT !.dropped = Append(@, i)]

\* a destructor that also lets the inner array drop all its CAP slots
RECURSIVE lib_drop_array_too(_)
lib_drop_array_too(s) ==
    LET r == lib_pop(s)
    IN  IF r.ret.kind = "None" THEN drop_in_place(s, 0, CAPACITY)
        ELSE lib_drop_array_too(drop_popped(r.s, s.len - 1))

\* Drop for ArrayVec: while let Some(_) = self.pop() { }; NoDrop inhibits
\* the drop of the inner array
RECURSIVE lib_drop(_)
lib_drop(s) ==
    LET r == lib_pop(s)
    IN  IF r.ret.kind = "None" THEN s
        ELSE lib_drop(drop_popped(r.s, s.len - 1))

-----------------------------------------------------------------------------
(* ArrayString: a buffer of bytes (xs) and a length (len); the bytes below  *)
(* len are UTF-8.  Bytes have no destructor and are never moved out: a byte *)
(* stays in its slot until it is overwritten.  A char is its code point.    *)

\* the chars the runs push: a, e-acute, the euro sign and an emoji, of 1, 2,
\* 3 and 4 bytes
Chars == {97, 233, 8364, 128512}

\* char::len_utf8
len_utf8(c) ==
    IF c < 128 THEN 1 ELSE IF c < 2048 THEN 2 ELSE IF c < 65536 THEN 3 ELSE 4

\* the UTF-8 encoding of the code point c
utf8_bytes(c) ==
    IF c < 128 THEN <<c>>
    ELSE IF c < 2048 THEN <<192 + (c \div 64), 128 + (c % 64)>>
    ELSE IF c < 65536
    THEN <<224 + (c \div 4096), 128 + ((c \div 64) % 64), 128 + (c % 64)>>
    ELSE <<240 + (c \div 262144), 128 + ((c \div 4096) % 64),
           128 + ((c \div 64) % 64), 128 + (c % 64)>>

\* the bytes of the &str made of the chars cs
RECURSIVE str_bytes(_)
str_bytes(cs) ==
    IF cs = <<>> THEN <<>> ELSE utf8_bytes(Head(cs)) \o str_bytes(Tail(cs))

\* a byte of the form 10xxxxxx: (b as i8) < -0x40
is_continuation(b) == 128 <= b /\ b < 192

\* the width a leading byte announces
utf8_char_width(b) ==
    IF b < 128 THEN 1 ELSE IF b < 224 THEN 2 ELSE IF b < 240 THEN 3 ELSE 4

\* the code point the bytes q of one char encode
decode_char(q) ==
    IF Len(q) = 1 THEN q[1]
    ELSE IF Len(q) = 2 THEN (q[1] - 192) * 64 + (q[2] - 128)
    ELSE IF Len(q) = 3
    THEN (q[1] - 224) * 4096 + (q[2] - 128) * 64 + (q[3] - 128)
    ELSE (q[1] - 240) * 262144 + (q[2] - 128) * 4096 + (q[3] - 128) * 64
         + (q[4] - 128)

\* the bytes [from, to) of the buffer
bytes_of(s, from, to) == [k \in 1..(to - from) |-> s.xs[from + k - 1]]

\* a write of one byte into the buffer
byte_write(s, i, b) ==
    IF i \notin Slots THEN Fault(s, "write_out_of_buffer")
    ELSE [s EXCEPT !.xs[i] = b]

\* ptr::copy_nonoverlapping(src, dst, n) of the bytes q
RECURSIVE bytes_write(_, _, _)
bytes_write(s, dst, q) ==
    IF q = <<>> THEN s
    ELSE bytes_write(byte_write(s, dst, Head(q)), dst + 1, Tail(q))

\* ptr::copy(ptr.add(src), ptr.add(dst), n) within the buffer
bytes_copy(s, src, dst, n) ==
    IF n < 0 THEN Fault(s, "copy_negative_count")
    ELSE IF n = 0 THEN s
    ELSE IF src + n > CAPACITY \/ dst + n > CAPACITY
         THEN Fault(s, "copy_out_of_buffer")
    ELSE [s EXCEPT !.xs = [i \in Slots |->
                             IF dst <= i /\ i < dst + n
                             THEN s.xs[i - dst + src] ELSE s.xs[i]]]

\* str::is_char_boundary
is_char_boundary(s, index) ==
    IF index = 0 THEN TRUE
    ELSE IF index >= s.len THEN index = s.len
    ELSE ~is_continuation(s.xs[index])

\* the char the str [from, len) starts with, as chars().next() decodes it:
\* its width in w, its code point in ch (w = 0: the str is empty)
chars_next(s, from) ==
    IF from >= s.len THEN [w |-> 0, ch |-> 0]
    ELSE LET w == utf8_char_width(s.xs[from])
         IN  IF from + w > s.len THEN [w |-> s.len - from, ch |-> 65533]
             ELSE [w |-> w, ch |-> decode_char(bytes_of(s, from, from + w))]

\* the char the str [0, len) ends with, as chars().rev().next() decodes it:
\* back over the continuation bytes to the leading byte
chars_rev_next(s) ==
    IF s.len = 0 THEN [w |-> 0, ch |-> 0]
    ELSE LET back == {k \in 1..4 : k <= s.len
                                   /\ ~is_continuation(s.xs[s.len - k])}
         IN  IF back = {} THEN [w |-> 1, ch |-> 65533]
             ELSE LET w == CHOOSE k \in back : \A m \in back : k <= m
                  IN  [w |-> w,
                       ch |-> decode_char(bytes_of(s, s.len - w, s.len))]

\* crate::char::encode_utf8(c, ptr, len): the encoding of c is written at
\* ptr if it fits in len bytes, and its size returned in n; if it does not
\* fit nothing is written (n = 0)
encode_utf8(s, c, ptr, remaining) ==
    IF len_utf8(c) > remaining THEN [s |-> s, n |-> 0]
    ELSE [s |-> bytes_write(s, ptr, utf8_bytes(c)), n |-> len_utf8(c)]

\* a try_push that sets the length first and leaves the encoding for later
str_try_push_encode_len_first(s, c) ==
    LET l == s.len
        remaining_cap == CAPACITY - l
    IN  IF len_utf8(c) > remaining_cap THEN [s |-> s, n |-> 0]
        ELSE [s |-> set_len(s, l + len_utf8(c)), n |-> len_utf8(c)]

\* try_push up to the match: the char is encoded into the spare capacity
str_try_push_encode(s, c) ==
    LET l == s.len
        remaining_cap == CAPACITY - l
    IN  encode_utf8(s, c, l, remaining_cap)

\* a try_push_str that appends the chars that fit before it gives up
str_try_push_str_partial(s, q) ==
    IF Len(q) > CAPACITY - s.len
    THEN LET room == CAPACITY - s.len
         IN  Res(set_len(bytes_write(s, s.len, SubSeq(q, 1, room)),
                         s.len + room), Err(q))
    ELSE Res(set_len(bytes_write(s, s.len, q), s.len + Len(q)), Ok)

\* ArrayString::try_push_str
str_try_push_str(s, q) ==
    IF Len(q) > CAPACITY - s.len THEN Res(s, Err(q))
    ELSE LET newl == s.len + Len(q)
         IN  Res(set_len(bytes_write(s, s.len, q), newl), Ok)

\* a pop that always takes one byte off
str_pop_one_byte(s) ==
    LET r == chars_rev_next(s)
    IN  IF r.w = 0 THEN Res(s, None)
        ELSE Res(set_len(s, s.len - 1), Some(r.ch))

\* ArrayString::pop
str_pop(s) ==
    LET r == chars_rev_next(s)
    IN  IF r.w = 0 THEN Res(s, None)
        ELSE LET nl == s.len - len_utf8(r.ch)
             IN  Res(set_len(s, nl), Some(r.ch))

\* a truncate without the assert
str_truncate_no_assert(s, nl) ==
    IF nl <= s.len THEN Res(set_len(s, nl), Ok) ELSE Res(s, Ok)

\* ArrayString::truncate
str_truncate(s, nl) ==
    IF nl <= s.len
    THEN IF is_char_boundary(s, nl) THEN Res(set_len(s, nl), Ok)
         ELSE Res(s, Panic)
    ELSE Res(s, Ok)

\* a remove that closes the gap by one byte only
str_remove_one_byte(s, idx) ==
    IF idx > s.len \/ ~is_char_boundary(s, idx) THEN Res(s, Panic)
    ELSE LET r == chars_next(s, idx)
         IN  IF r.w = 0 THEN Res(s, Panic)
             ELSE LET l == s.len
                  IN  Res(set_len(bytes_copy(s, idx + 1, idx, l - (idx + 1)),
                                  l - 1), Some(r.ch))

\* ArrayString::remove: self[idx..] panics off a boundary, the end of the
\* string has no char to remove
str_remove(s, idx) ==
    IF idx > s.len \/ ~is_char_boundary(s, idx) THEN Res(s, Panic)
    ELSE LET r == chars_next(s, idx)
         IN  IF r.w = 0 THEN Res(s, Panic)
             ELSE LET next == idx + len_utf8(r.ch)
                      l == s.len
                  IN  Res(set_len(bytes_copy(s, next, idx, l - next),
                                  l - (next - idx)), Some(r.ch))

\* ArrayString::clear
str_clear(s) == set_len(s, 0)

-----------------------------------------------------------------------------
(* Hash, PartialEq, PartialOrd and Ord: each dereferences the vector and    *)
(* hands the slice to the implementation for slices.                        *)

\* [T] == [T]
slice_eq(a, b) == Len(a) = Len(b) /\ \A k \in 1..Len(a) : a[k] = b[k]

\* Ord for [T]: the first difference decides, then the lengths
RECURSIVE slice_cmp(_, _)
slice_cmp(a, b) ==
    IF a = <<>> THEN (IF b = <<>> THEN "Equal" ELSE "Less")
    ELSE IF b = <<>> THEN "Greater"
    ELSE IF Head(a) < Head(b) THEN "Less"
    ELSE IF Head(a) > Head(b) THEN "Greater"
    ELSE slice_cmp(Tail(a), Tail(b))

\* Hash for [T]: what the hasher is fed, the length and then the elements
slice_hash(a) == <<Len(a)>> \o a

\* an equality of the whole struct, field by field
eq_fields(v, w) == v.xs = w.xs /\ v.len = w.len

\* PartialEq::eq: **self == **other
eq(v, w) == slice_eq(as_slice(v), as_slice(w))

\* Ord::cmp: (**self).cmp(other)
cmp(v, w) == slice_cmp(as_slice(v), as_slice(w))

\* Hash::hash: Hash::hash(&**self, state)
hash(v) == slice_hash(as_slice(v))

-----------------------------------------------------------------------------
(* The historical vectors: RawArrayVec of raw.rs, ArrayVec of vec.rs on top *)
(* of it, and the oldest ArrayVec of lib.rs.                                *)

\* RawArrayVec::insert
raw_insert(s, index, element) ==
    IF ~(index <= s.len) THEN Res(s, Panic)
    ELSE IF index = CAPACITY THEN Res(s, Err(element))
    ELSE LET full == s.len = CAPACITY
             p == IF full THEN pop(s) ELSE Res(s, None)
             r == IF full THEN Err(p.ret.val) ELSE Ok
             l == p.s.len
             s1 == ptr_copy(p.s, index, index + 1, l - index)
             s2 == ptr_write(s1, index, element)
         IN  Res(set_len(s2, l + 1), r)

\* an insert that leaves the bounds to RawArrayVec
vec_insert_unguarded(s, index, element) ==
    LET r == raw_insert(s, index, element)
    IN  Res(r.s, IF r.ret.kind = "Err" THEN Some(r.ret.val)
                 ELSE IF r.ret.kind = "Ok" THEN None ELSE r.ret)

\* ArrayVec::insert of vec.rs
vec_insert(s, index, element) ==
    IF index > s.len THEN Res(s, Some(element))
    ELSE LET r == raw_insert(s, index, element)
         IN  Res(r.s, IF r.ret.kind = "Err" THEN Some(r.ret.val)
                      ELSE IF r.ret.kind = "Ok" THEN None ELSE r.ret)

\* the width of usize in these runs
USIZE_BITS == 16

\* ArrayVec::insert of lib.rs.  len - index is a subtraction of usize: below
\* zero it panics in a build with overflow checks and wraps in one without
lib_insert(s, index, element, build) ==
    IF index >= CAPACITY THEN Res(s, Some(element))
    ELSE LET full == s.len = CAPACITY
             p == IF full THEN pop(s) ELSE Res(s, None)
             l == p.s.len
         IN  IF l < index /\ build = "debug" THEN Res(p.s, Panic)
             ELSE LET count == (l - index) % (2 ^ USIZE_BITS)
                      s1 == ptr_copy(p.s, index, index + 1, count)
                      s2 == ptr_write(s1, index, element)
                  IN  Res(set_len(s2, l + 1), p.ret)

\* Drop for IntoIter of vec.rs, then the drop of its field v (clear, which
\* is the loop over pop).  The destructor of the panic_at-th element dropped
\* panics (0: none does); the elements behind it are not dropped
vec_into_iter_drop(s, i, panic_at) ==
    LET l == s.len
        ran == IF panic_at \in 1..(l - i) THEN panic_at ELSE l - i
        s1 == drop_in_place(set_len(s, 0), i, ran)
    IN  Res(lib_drop(s1), IF panic_at \in 1..(l - i) THEN Panic ELSE Ok)

\* Drop for IntoIter of lib.rs: while let Some(_) = self.next() { }, then
\* set_len(0), which a panic of a destructor skips; then the drop of its
\* field v
lib_into_iter_drop(s, i, panic_at) ==
    LET l == s.len
        panicked == panic_at \in 1..(l - i)
        s1 == drop_in_place(s, i, IF panicked THEN panic_at ELSE l - i)
        s2 == IF panicked THEN s1 ELSE set_len(s1, 0)
    IN  Res(lib_drop(s2), IF panicked THEN Panic ELSE Ok)

\* Drop for Drain of raw.rs and lib.rs with elements whose destructor may
\* panic: the loop over next() ends at the panic, and the tail is not moved
drain_drop_unwind(s, d, panic_at) ==
    LET n == d.hi - d.lo
        s1 == drop_in_place(s, d.lo, IF panic_at \in 1..n THEN panic_at ELSE n)
    IN  IF panic_at \in 1..n THEN Res(s1, Panic)
        ELSE Res(drain_move_tail(s1, [d EXCEPT !.lo = d.hi]), Ok)

\* an extend that pulls items as long as there are any
RECURSIVE take_extend_all(_, _, _, _)
take_extend_all(s, n, iter, pulled) ==
    IF iter = <<>> THEN [s |-> s, pulled |-> pulled]
    ELSE take_extend_all(try_push(s, Head(iter)).s, n, Tail(iter), pulled + 1)

\* Extend for RawArrayVec and for ArrayVec of lib.rs: for elt in
\* iter.take(take) { push(elt) }.  Take asks the iterator for an item only
\* while n > 0; pulled counts the items the iterator gave
RECURSIVE take_extend(_, _, _, _)
take_extend(s, n, iter, pulled) ==
    IF n = 0 \/ iter = <<>> THEN [s |-> s, pulled |-> pulled]
    ELSE take_extend(try_push(s, Head(iter)).s, n - 1, Tail(iter), pulled + 1)

-----------------------------------------------------------------------------
(* rayon_impls.rs: the consumer a parallel iterator collects into.  A slice *)
(* of the target is its first slot and its length.                          *)

\* the address of `&mut [][..]`, the empty slice outside the buffer
Dangling == -1

\* a tail slice as long as the iterator, whatever room there is
reserve_get_tail_slice_uncapped(s, l) == [start |-> s.len, len |-> l]

\* Collect::reserve_get_tail_slice
reserve_get_tail_slice(s, l) ==
    LET actual_len == min(CAPACITY - s.len, l)
    IN  [start |-> s.len, len |-> actual_len]

\* CollectConsumer::split_at: the targets of the left and the right consumer
split_at(target, index) ==
    IF index < target.len
    THEN <<[start |-> target.start, len |-> index],
           [start |-> target.start + index, len |-> target.len - index]>>
    ELSE <<target, [start |-> Dangling, len |-> 0]>>

\* CollectFolder::consume; wrote is a ghost, the slots this folder wrote
consume(s, f, item) ==
    IF f.result.len >= f.final_len THEN [s |-> s, f |-> f, ret |-> Panic]
    ELSE [s |-> ptr_write(s, f.result.start + f.result.len, item),
          f |-> [f EXCEPT !.result.len = @ + 1,
                          !.wrote = Append(@, f.result.start + f.result.len)],
          ret |-> Ok]

\* Folder::consume_iter as the bridge runs it on a producer's items: consume
\* one item after the other until the folder is full()
RECURSIVE consume_iter(_, _, _)
consume_iter(s, f, iter) ==
    IF iter = <<>> THEN [s |-> s, f |-> f, ret |-> Ok]
    ELSE LET c == consume(s, f, Head(iter))
         IN  IF c.ret = Panic \/ c.f.result.len = c.f.final_len THEN c
             ELSE consume_iter(c.s, c.f, Tail(iter))

\* CollectReducer::reduce: adjacent results are merged, else the right one
\* is dropped, and the elements it owns with it
reduce(s, left, right) ==
    IF left.start + left.len = right.start
    THEN [s |-> s, result |-> [left EXCEPT !.len = @ + right.len]]
    ELSE [s |-> drop_in_place(s, right.start, right.len), result |-> left]

-----------------------------------------------------------------------------
(* nodrop: NoDrop<T>, the holder that does not drop what it holds.          *)

\* a NoDrop whose Drop leaves the flag as it is
nodrop_drop_keep_flag(f) ==
    [flag |-> f, drops |-> IF f = "Alive" THEN 1 ELSE 0]

\* Drop for NoDrop: ptr::write(&mut self.0, Flag::Dropped) overwrites the
\* flag without dropping what was there; then the field is dropped as every
\* field is, and a Flag::Alive would drop its value
nodrop_drop(f) ==
    LET written == "Dropped"
    IN  [flag |-> written, drops |-> IF written = "Alive" THEN 1 ELSE 0]

-----------------------------------------------------------------------------
(* LenUint: the unsigned types a length is stored in, named by their      *)
(* width in bits.                                                           *)

U8_BITS == 8
U16_BITS == 16
RECURSIVE Pow2(_)
Pow2(b) == IF b = 0 THEN 1 ELSE 2 * Pow2(b - 1)

\* const MAX: usize = <$ty>::MAX as usize
MAX(ty) == Pow2(ty) - 1

\* const ZERO: Self = 0
ZERO == 0

\* n as $ty: the low bits of n
from_usize(ty, n) == n % Pow2(ty)

\* self as usize: usize is no narrower than any $ty chosen here, the cast
\* extends with zeroes
to_usize(ty, v) == v % Pow2(ty)

\* a capacity check that lets through one capacity too many
assert_capacity_limit_late(ty, cap) ==
    IF cap > MAX(ty) + 1 THEN Panic ELSE Ok

\* assert_capacity_limit!($ty, $cap)
assert_capacity_limit(ty, cap) ==
    IF cap > MAX(ty) THEN Panic ELSE Ok

-----------------------------------------------------------------------------
(* The state machine: one action per public operation, and one per step of *)
(* the operations that hand control to the caller in between (pop's two    *)
(* halves, the Drain's life, the turns of retain's loop).                  *)

\* slices and iterators given to the extend operations: the first n items of
\* the cycle 1, 2, .., MaxVal, 1, ..
Inputs == {[i \in 1..n |-> ((i - 1) % MaxVal) + 1] : n \in 0..MaxExt}

NoItems == <<>>
Call(name, index, end, element, items) ==
    [name |-> name, index |-> index, end |-> end, element |-> element,
     items |-> items]

NoYield == [front |-> <<>>, back |-> <<>>]

\* no insert is remembered
NoInsert == [valid |-> FALSE, index |-> 0, element |-> Uninit, pre |-> <<>>]

\* one vector only: no record of the memory, no second vector
NoBits == [i \in Slots |-> Uninit]
NoRhs == [xs |-> NoBits, len |-> 0]

\* ArrayString<CAP>: DefaultLenType<CAP> is u8 for the small capacities
DefaultLenType == [ty |-> U8_BITS, cap |-> CAP]

\* the values made for ArrayVec<A>::push of lib.rs, none made yet
Tokens == 1..MaxTok
NoLife == [t \in Tokens |-> [went |-> "unmade", vec_drops |-> 0,
                             caller_drops |-> 0]]

\* no value is wrapped in a NoDrop
NoHolder == [t \in Tokens |-> [scope |-> "none", flag |-> "Dropped"]]

\* no par_extend is under way.  The consumers are the nodes of a binary
\* tree, node n having the children 2n and 2n + 1
NoPar ==
    [n \in 1..(2 ^ MaxPar - 1) |->
        [st |-> "none", target |-> [start |-> 0, len |-> 0],
         from |-> 0, to |-> 0, result |-> [start |-> 0, len |-> 0]]]

\* the vector at the start of a call
Start == [Cur EXCEPT !.dropped = <<>>]

Commit(s) ==
    /\ xs' = s.xs
    /\ len' = s.len
    /\ fault' = s.fault
    /\ dropped' = s.dropped

\* a call that runs to its end in one step
Run(call, r) ==
    /\ pc = "idle"
    /\ Commit(r.s)
    /\ ret' = r.ret
    /\ op' = call
    /\ pre' = as_slice(Cur)
    /\ pc' = "idle"
    /\ new_len' = 0
    /\ drain' = NoDrain
    /\ g' = NoGuard
    /\ iter_index' = 0
    /\ yielded' = NoYield
    /\ visits' = <<>>

Whole(call, r) == Run(call, r) /\ UNCHANGED <<last_insert, life, lentype, bits, rhs, holder, par>>

\* ArrayVecCopy::new(), or From<[T; CAP]>
Init ==
    /\ \/ /\ xs = [i \in Slots |-> Uninit]
          /\ len = 0
          /\ op = Call("new", 0, 0, Uninit, NoItems)
       \/ /\ xs \in [Slots -> Values]
          /\ len = CAP
          /\ op = Call("from", 0, 0, Uninit, NoItems)
    /\ fault = {}
    /\ dropped = <<>>
    /\ pc = "idle"
    /\ pre = <<>>
    /\ ret = Ok
    /\ new_len = 0
    /\ drain = NoDrain
    /\ g = NoGuard
    /\ iter_index = 0
    /\ yielded = NoYield
    /\ visits = <<>>
    /\ last_insert = NoInsert
    /\ life = NoLife
    /\ lentype = DefaultLenType
    /\ bits = NoBits
    /\ rhs = NoRhs
    /\ holder = NoHolder
    /\ par = NoPar

\* truncate(new_len) up to the drop of the tail: the test, and set_len
Truncate(n) ==
    /\ pc = "idle"
    /\ op' = Call("truncate", n, 0, Uninit, NoItems)
    /\ pre' = as_slice(Cur)
    /\ new_len' = 0
    /\ drain' = NoDrain
    /\ g' = NoGuard
    /\ iter_index' = 0
    /\ yielded' = NoYield
    /\ visits' = <<>>
    /\ UNCHANGED <<last_insert, life, lentype, bits, rhs, holder, par>>
    /\ IF n < len
       THEN /\ Commit(truncate_set_len(Start, n))
            /\ ret' = Pending
            /\ pc' = "truncate"
       ELSE /\ Commit(Start)
            /\ ret' = Ok
            /\ pc' = "idle"

\* truncate: the tail is dropped in place (pre is the slice truncate found,
\* so Len(pre) is its local len)
TruncateDrop ==
    /\ pc = "truncate"
    /\ Commit(truncate_drop_tail(Cur, op.index, Len(pre)))
    /\ ret' = Ok
    /\ pc' = "idle"
    /\ UNCHANGED <<op, pre, new_len, drain, g, iter_index, yielded,
                   visits, last_insert, life, lentype, bits, rhs, holder, par>>

\* pop: the emptiness test, and set_len(new_len)
PopSetLen ==
    /\ pc = "idle"
    /\ op' = Call("pop", 0, 0, Uninit, NoItems)
    /\ pre' = as_slice(Cur)
    /\ drain' = NoDrain
    /\ g' = NoGuard
    /\ iter_index' = 0
    /\ yielded' = NoYield
    /\ visits' = <<>>
    /\ UNCHANGED <<last_insert, life, lentype, bits, rhs, holder, par>>
    /\ IF len = 0
       THEN /\ Commit(Start)
            /\ ret' = None
            /\ pc' = "idle"
            /\ new_len' = 0
       ELSE /\ Commit(pop_set_len(Start))
            /\ ret' = Pending
            /\ pc' = "pop"
            /\ new_len' = len - 1

\* pop: Some(ptr::read(as_ptr().add(new_len)))
PopRead ==
    /\ pc = "pop"
    /\ LET r == pop_read(Cur, new_len)
       IN  /\ Commit(r.s)
           /\ ret' = r.ret
    /\ pc' = "idle"
    /\ new_len' = 0
    /\ UNCHANGED <<op, pre, drain, g, iter_index, yielded,
                 visits, last_insert, life, lentype, bits, rhs, holder, par>>

\* drain(start..end)
DrainRange(start, end) ==
    /\ pc = "idle"
    /\ LET r == drain_range(Start, start, end)
       IN  /\ Commit(r.s)
           /\ ret' = r.ret
           /\ drain' = r.d
           /\ pc' = IF r.ret.kind = "Panic" THEN "idle" ELSE "drain"
    /\ op' = Call("drain", start, end, Uninit, NoItems)
    /\ pre' = as_slice(Cur)
    /\ new_len' = 0
    /\ g' = NoGuard
    /\ iter_index' = 0
    /\ yielded' = NoYield
    /\ visits' = <<>>
    /\ UNCHANGED <<last_insert, life, lentype, bits, rhs, holder, par>>

DrainNext ==
    /\ pc = "drain"
    /\ LET r == drain_next(Cur, drain)
       IN  /\ Commit(r.s)
           /\ ret' = r.ret
           /\ drain' = r.d
           /\ yielded' = IF r.ret.kind = "Some"
                         THEN [yielded EXCEPT !.front = Append(@, r.ret.val)]
                         ELSE yielded
    /\ UNCHANGED <<pc, op, pre, new_len, g, iter_index,
                 visits, last_insert, life, lentype, bits, rhs, holder, par>>

DrainNextBack ==
    /\ pc = "drain"
    /\ LET r == drain_next_back(Cur, drain)
       IN  /\ Commit(r.s)
           /\ ret' = r.ret
           /\ drain' = r.d
           /\ yielded' = IF r.ret.kind = "Some"
                         THEN [yielded EXCEPT !.back = Append(@, r.ret.val)]
                         ELSE yielded
    /\ UNCHANGED <<pc, op, pre, new_len, g, iter_index,
                 visits, last_insert, life, lentype, bits, rhs, holder, par>>

\* the Drain goes out of scope: Drop for Drain
DrainDrop ==
    /\ pc = "drain"
    /\ Commit(drain_drop(Cur, drain))
    /\ ret' = Ok
    /\ pc' = "idle"
    /\ drain' = NoDrain
    /\ UNCHANGED <<op, pre, new_len, g, iter_index, yielded,
                 visits, last_insert, life, lentype, bits, rhs, holder, par>>

\* mem::forget(drain): the destructor never runs; what the Drain still held
\* is leaked, nobody owns it any more
DrainForget ==
    /\ pc = "drain"
    /\ xs' = [i \in Slots |-> IF i < len THEN xs[i] ELSE Uninit]
    /\ ret' = [kind |-> "Leaked", val |-> Uninit]
    /\ pc' = "idle"
    /\ drain' = NoDrain
    /\ UNCHANGED <<len, fault, dropped, op, pre, new_len, g, iter_index, yielded,
                 visits, last_insert, life, lentype, bits, rhs, holder, par>>

\* the guard goes out of scope at the end of retain
RetainFinish(r) ==
    IF r.g.processed_len < r.g.original_len
    THEN /\ Commit(r.s)
         /\ g' = r.g
         /\ pc' = "retain"
         /\ ret' = Pending
    ELSE /\ Commit(backshift_on_drop(r.s, r.g))
         /\ g' = NoGuard
         /\ pc' = "idle"
         /\ ret' = Ok

\* retain(f) up to the first call of f
Retain ==
    /\ pc = "idle"
    /\ RetainFinish(retain_begin(Start))
    /\ op' = Call("retain", 0, 0, Uninit, NoItems)
    /\ pre' = as_slice(Cur)
    /\ new_len' = 0
    /\ drain' = NoDrain
    /\ iter_index' = 0
    /\ yielded' = NoYield
    /\ visits' = <<>>
    /\ UNCHANGED <<last_insert, life, lentype, bits, rhs, holder, par>>

\* f(&mut *cur) returns or panics, and retain runs on to the next call of f
RetainTurn(verdict, nv) ==
    /\ pc = "retain"
    /\ pre' = [pre EXCEPT ![g.processed_len + 1] = nv]
    /\ op' = [op EXCEPT !.index = g.processed_len]
    /\ IF verdict = "panic"
       THEN /\ Commit(retain_turn(Cur, g, verdict, nv).s)
            /\ g' = NoGuard
            /\ pc' = "idle"
            /\ ret' = Panic
            /\ yielded' = yielded
       ELSE /\ RetainFinish(retain_turn(Cur, g, verdict, nv))
            /\ yielded' = IF verdict = "keep"
                          THEN [yielded EXCEPT !.front = Append(@, nv)]
                          ELSE yielded
    /\ visits' = Append(visits, [index |-> g.processed_len, verdict |-> verdict])
    /\ UNCHANGED <<new_len, drain, iter_index, last_insert, life, lentype, bits, rhs, holder, par>>

\* into_inner(self): the vector is consumed when it succeeds, and handed
\* back in the error when it does not
IntoInner ==
    /\ pc = "idle"
    /\ LET r == into_inner(Start)
       IN  /\ Commit(r.s)
           /\ ret' = r.ret
           /\ pc' = IF r.ret.kind = "Ok" THEN "gone" ELSE "idle"
    /\ op' = Call("into_inner", 0, 0, Uninit, NoItems)
    /\ pre' = as_slice(Cur)
    /\ new_len' = 0
    /\ drain' = NoDrain
    /\ g' = NoGuard
    /\ iter_index' = 0
    /\ yielded' = NoYield
    /\ visits' = <<>>
    /\ UNCHANGED <<last_insert, life, lentype, bits, rhs, holder, par>>

\* into_iter(self): IntoIter { index: 0, v: self }
IntoIter ==
    /\ pc = "idle"
    /\ Commit(Start)
    /\ ret' = Pending
    /\ pc' = "into_iter"
    /\ op' = Call("into_iter", 0, 0, Uninit, NoItems)
    /\ pre' = as_slice(Cur)
    /\ new_len' = 0
    /\ drain' = NoDrain
    /\ g' = NoGuard
    /\ iter_index' = 0
    /\ yielded' = NoYield
    /\ visits' = <<>>
    /\ UNCHANGED <<last_insert, life, lentype, bits, rhs, holder, par>>

IntoIterNext ==
    /\ pc = "into_iter"
    /\ LET r == into_iter_next(Cur, iter_index)
       IN  /\ Commit(r.s)
           /\ ret' = r.ret
           /\ iter_index' = r.index
           /\ yielded' = IF r.ret.kind = "Some"
                         THEN [yielded EXCEPT !.front = Append(@, r.ret.val)]
                         ELSE yielded
    /\ UNCHANGED <<pc, op, pre, new_len, drain, g,
                 visits, last_insert, life, lentype, bits, rhs, holder, par>>

IntoIterNextBack ==
    /\ pc = "into_iter"
    /\ LET r == into_iter_next_back(Cur, iter_index)
       IN  /\ Commit(r.s)
           /\ ret' = r.ret
           /\ iter_index' = r.index
           /\ yielded' = IF r.ret.kind = "Some"
                         THEN [yielded EXCEPT !.back = Append(@, r.ret.val)]
                         ELSE yielded
    /\ UNCHANGED <<pc, op, pre, new_len, drain, g,
                 visits, last_insert, life, lentype, bits, rhs, holder, par>>

\* the IntoIter goes out of scope, and the vector with it
IntoIterDrop ==
    /\ pc = "into_iter"
    /\ Commit(into_iter_drop(Cur, iter_index))
    /\ ret' = Ok
    /\ pc' = "gone"
    /\ UNCHANGED <<op, pre, new_len, drain, g, iter_index, yielded,
                 visits, last_insert, life, lentype, bits, rhs, holder, par>>

Next ==
    \/ \E x \in Values :
           Whole(Call("try_push", 0, 0, x, NoItems), try_push(Start, x))
    \/ \E x \in Values :
           Whole(Call("push", 0, 0, x, NoItems), push(Start, x))
    \/ PopSetLen
    \/ PopRead
    \/ \E i \in Indices, x \in Values :
           Whole(Call("try_insert", i, 0, x, NoItems), try_insert(Start, i, x))
    \/ \E i \in Indices, x \in Values :
           Whole(Call("insert", i, 0, x, NoItems), insert(Start, i, x))
    \/ \E i \in Indices :
           Whole(Call("swap_pop", i, 0, Uninit, NoItems), swap_pop(Start, i))
    \/ \E i \in Indices :
           Whole(Call("swap_remove", i, 0, Uninit, NoItems),
                 swap_remove(Start, i))
    \/ \E i \in Indices :
           Whole(Call("pop_at", i, 0, Uninit, NoItems), pop_at(Start, i))
    \/ \E i \in Indices :
           Whole(Call("remove", i, 0, Uninit, NoItems), remove(Start, i))
    \/ \E n \in Indices : Truncate(n)
    \/ TruncateDrop
    \/ Whole(Call("clear", 0, 0, Uninit, NoItems), Res(clear(Start), Ok))
    \/ \E other \in Inputs :
           Whole(Call("try_extend_from_slice", 0, 0, Uninit, other),
                 try_extend_from_slice(Start, other))
    \/ \E data \in Inputs :
           Whole(Call("write", 0, 0, Uninit, data), write(Start, data))
    \/ \E iter \in Inputs : \E k \in -1..Len(iter) :
           Whole(Call("extend", k, 0, Uninit, iter), extend(Start, iter, k))
    \/ \E start \in Indices, end \in Indices : DrainRange(start, end)
    \/ DrainNext
    \/ DrainNextBack
    \/ DrainDrop
    \/ \E iter \in Inputs, build \in {"debug", "release"} :
           /\ pc = "drain"      \* the Drain was made for a Splice, dropped now
           /\ LET r == splice_drop(Start, drain, iter, build)
              IN  Commit(r.s) /\ ret' = r.ret
           /\ pc' = "idle"
           /\ op' = Call("splice", op.index, op.end, Uninit, iter)
           /\ drain' = NoDrain
           /\ UNCHANGED <<pre, new_len, g, iter_index, yielded, visits,
                         last_insert, life, lentype, bits, rhs, holder, par>>
    \/ DrainForget
    \/ Retain
    \/ \E verdict \in {"keep", "delete", "panic"}, nv \in Values :
           RetainTurn(verdict, nv)
    \/ IntoInner
    \/ IntoIter
    \/ IntoIterNext
    \/ IntoIterNextBack
    \/ IntoIterDrop

Spec == Init /\ [][Next]_vars

-----------------------------------------------------------------------------
(* The drop-counting runs on ArrayVec<A> of lib.rs: the caller makes values *)
(* that count their drops, pushes them, pops some, drops what it holds and  *)
(* lets the vector go out of scope.                                         *)

\* ArrayVec::new()
InitLib ==
    /\ xs = [i \in Slots |-> Uninit]
    /\ len = 0
    /\ op = Call("new", 0, 0, Uninit, NoItems)
    /\ fault = {}
    /\ dropped = <<>>
    /\ pc = "idle"
    /\ pre = <<>>
    /\ ret = Ok
    /\ new_len = 0
    /\ drain = NoDrain
    /\ g = NoGuard
    /\ iter_index = 0
    /\ yielded = NoYield
    /\ visits = <<>>
    /\ last_insert = NoInsert
    /\ life = NoLife
    /\ lentype = DefaultLenType
    /\ bits = NoBits
    /\ rhs = NoRhs
    /\ holder = NoHolder
    /\ par = NoPar

Unmade == {t \in Tokens : life[t].went = "unmade"}

\* the caller makes the next value and pushes it
LibPush ==
    /\ Unmade # {}
    /\ LET t == CHOOSE u \in Unmade : \A v \in Unmade : u <= v
           r == lib_push(Start, t)
       IN  /\ Run(Call("push", 0, 0, t, NoItems), r)
           /\ life' = [life EXCEPT ![t].went =
                          IF r.ret.kind = "Some" THEN "rejected" ELSE "stored"]
    /\ UNCHANGED <<last_insert, lentype, bits, rhs, holder, par>>

\* the caller pops and keeps the value
LibPop ==
    /\ LET r == lib_pop(Start)
       IN  /\ Run(Call("pop", 0, 0, Uninit, NoItems), r)
           /\ life' = IF r.ret.kind = "Some" /\ r.ret.val \in Tokens
                      THEN [life EXCEPT ![r.ret.val].went = "popped"]
                      ELSE life
    /\ UNCHANGED <<last_insert, lentype, bits, rhs, holder, par>>

\* the caller drops a value it holds: one that push returned to it, or one
\* it popped
CallerDrop(t) ==
    /\ pc \in {"idle", "gone"}
    /\ life[t].went \in {"rejected", "popped"}
    /\ life[t].caller_drops = 0
    /\ life' = [life EXCEPT ![t].caller_drops = @ + 1]
    /\ UNCHANGED <<xs, len, fault, dropped, pc, op, pre, ret, new_len, drain,
                   g, iter_index, yielded, visits, last_insert, lentype,
                   bits, rhs, holder, par>>

\* the vector goes out of scope: Drop for ArrayVec.  Every value it drops
\* counts one more drop by the vector.
LibDrop ==
    /\ pc = "idle"
    /\ LET s == lib_drop(Start)
       IN  /\ Commit(s)
           /\ life' = [t \in Tokens |->
                         [life[t] EXCEPT !.vec_drops = @ +
                            Cardinality({k \in 1..Len(s.dropped) :
                               s.dropped[k] \in Slots
                               /\ xs[s.dropped[k]] = t})]]
    /\ ret' = Ok
    /\ pc' = "gone"
    /\ op' = Call("drop", 0, 0, Uninit, NoItems)
    /\ pre' = as_slice(Cur)
    /\ new_len' = 0
    /\ drain' = NoDrain
    /\ g' = NoGuard
    /\ iter_index' = 0
    /\ yielded' = NoYield
    /\ visits' = <<>>
    /\ UNCHANGED <<last_insert, lentype, bits, rhs, holder, par>>

NextLib ==
    \/ LibPush
    \/ LibPop
    \/ \E t \in Tokens : CallerDrop(t)
    \/ LibDrop

SpecLib == InitLib /\ [][NextLib]_vars

-----------------------------------------------------------------------------
(* The round-trip runs on ArrayVecCopy: pushes, an insert, and a remove at  *)
(* the index of the insert that went right before it.                       *)

\* insert(i, x); the call is remembered if it succeeded
RoundTripInsert(i, x) ==
    /\ LET r == insert(Start, i, x)
       IN  /\ Run(Call("insert", i, 0, x, NoItems), r)
           /\ last_insert' = IF r.ret = Ok
                             THEN [valid |-> TRUE, index |-> i, element |-> x,
                                   pre |-> as_slice(Cur)]
                             ELSE NoInsert
    /\ UNCHANGED <<life, lentype, bits, rhs, holder, par>>

\* remove(i), right after an insert(i, x) that succeeded
RoundTripRemove ==
    /\ op.name = "insert"
    /\ ret = Ok
    /\ last_insert.valid
    /\ Run(Call("remove", last_insert.index, 0, Uninit, NoItems),
           remove(Start, last_insert.index))
    /\ UNCHANGED <<last_insert, life, lentype, bits, rhs, holder, par>>

NextRoundTrip ==
    \/ \E x \in Values :
           Whole(Call("push", 0, 0, x, NoItems), push(Start, x))
    \/ \E i \in Indices, x \in Values : RoundTripInsert(i, x)
    \/ RoundTripRemove

SpecRoundTrip == Init /\ [][NextRoundTrip]_vars

-----------------------------------------------------------------------------
(* The runs on the length type: a container type is chosen by LenType and  *)
(* CAP, a value of it is constructed, and lengths are recorded in it.       *)

\* the type is chosen, no value of it exists yet
InitLen ==
    \* the capacities tried with a length type: the small ones and those
    \* around its MAX
    /\ \E ty \in {U8_BITS, U16_BITS} :
         \E cap \in {c \in 0..(MAX(ty) + CapSlack) :
                         c <= CapSlack \/ c >= MAX(ty) - CapSlack} :
          lentype = [ty |-> ty, cap |-> cap]
    /\ xs = [i \in Slots |-> Uninit]
    /\ len = ZERO
    /\ op = Call("type", 0, 0, Uninit, NoItems)
    /\ fault = {}
    /\ dropped = <<>>
    /\ pc = "unmade"
    /\ pre = <<>>
    /\ ret = Ok
    /\ new_len = 0
    /\ drain = NoDrain
    /\ g = NoGuard
    /\ iter_index = 0
    /\ yielded = NoYield
    /\ visits = <<>>
    /\ last_insert = NoInsert
    /\ life = NoLife
    /\ bits = NoBits
    /\ rhs = NoRhs
    /\ holder = NoHolder
    /\ par = NoPar

\* new(): the capacity check, then the empty container
LenNew ==
    /\ pc = "unmade"
    /\ ret' = assert_capacity_limit(lentype.ty, lentype.cap)
    /\ IF ret' = Panic
       THEN pc' = "gone" /\ len' = len
       ELSE pc' = "idle" /\ len' = from_usize(lentype.ty, 0)
    /\ op' = Call("new", 0, 0, Uninit, NoItems)
    /\ UNCHANGED <<xs, fault, dropped, pre, new_len, drain, g, iter_index,
                   yielded, visits, last_insert, life, lentype, bits, rhs, holder, par>>

\* set_len(length) and len(): the length goes through from_usize into the
\* field and comes back through to_usize; new_len is what len() returns
LenSetLen(length) ==
    /\ pc = "idle"
    /\ length <= lentype.cap
    /\ len' = from_usize(lentype.ty, length)
    /\ new_len' = to_usize(lentype.ty, len')
    /\ op' = Call("set_len", length, 0, Uninit, NoItems)
    /\ ret' = Ok
    /\ UNCHANGED <<xs, fault, dropped, pc, pre, drain, g, iter_index,
                   yielded, visits, last_insert, life, lentype, bits, rhs, holder, par>>

NextLen ==
    \/ LenNew
    \* the lengths recorded: the small ones and those next to the capacity
    \/ \E length \in {n \in 0..lentype.cap :
                         n <= CapSlack \/ n >= lentype.cap - CapSlack} :
           LenSetLen(length)

SpecLen == InitLen /\ [][NextLen]_vars

-----------------------------------------------------------------------------
(* The runs on two vectors: one is worked on, the two change places, and   *)
(* they are compared.  bits follows the memory of the one worked on.        *)

\* the elements pushed in these runs
EqVals == {1, MaxVal}

\* the memory after a step: a slot that owns a value holds it, any other
\* slot keeps what it held
Settle(old, new_xs) ==
    [i \in Slots |-> IF new_xs[i] # Uninit THEN new_xs[i] ELSE old[i]]

\* two new() vectors; MaybeUninit::uninit() leaves the memory as it was
InitEq ==
    /\ xs = [i \in Slots |-> Uninit]
    /\ len = 0
    /\ bits \in [Slots -> EqVals \cup {Uninit}]
    /\ rhs \in [xs : [Slots -> EqVals \cup {Uninit}], len : {0}]
    /\ op = Call("new", 0, 0, Uninit, NoItems)
    /\ fault = {}
    /\ dropped = <<>>
    /\ pc = "idle"
    /\ pre = <<>>
    /\ ret = Ok
    /\ new_len = 0
    /\ drain = NoDrain
    /\ g = NoGuard
    /\ iter_index = 0
    /\ yielded = NoYield
    /\ visits = <<>>
    /\ last_insert = NoInsert
    /\ life = NoLife
    /\ lentype = DefaultLenType
    /\ holder = NoHolder
    /\ par = NoPar

EqTryPush(x) ==
    /\ Run(Call("try_push", 0, 0, x, NoItems), try_push(Start, x))
    /\ bits' = Settle(bits, xs')
    /\ UNCHANGED <<last_insert, life, lentype, rhs, holder, par>>

EqPop ==
    /\ Run(Call("pop", 0, 0, Uninit, NoItems), pop(Start))
    /\ bits' = Settle(bits, xs')
    /\ UNCHANGED <<last_insert, life, lentype, rhs, holder, par>>

\* the two vectors change places
EqSwap ==
    /\ pc = "idle"
    /\ rhs' = [xs |-> bits, len |-> len]
    /\ xs' = [i \in Slots |-> IF i < rhs.len THEN rhs.xs[i] ELSE Uninit]
    /\ len' = rhs.len
    /\ bits' = rhs.xs
    /\ op' = Call("swap", 0, 0, Uninit, NoItems)
    /\ pre' = as_slice(Cur)
    /\ ret' = Ok
    /\ UNCHANGED <<fault, dropped, pc, new_len, drain, g, iter_index, yielded,
                   visits, last_insert, life, lentype, holder, par>>

\* self == other, self.cmp(other), and the hash of each
EqCompare ==
    /\ pc = "idle"
    /\ LET self == [xs |-> bits, len |-> len]
       IN  ret' = [kind |-> "Ok",
                   val |-> [eq |-> eq(self, rhs), cmp |-> cmp(self, rhs),
                            hash_self |-> hash(self),
                            hash_other |-> hash(rhs)]]
    /\ op' = Call("eq", 0, 0, Uninit, NoItems)
    /\ pre' = as_slice(Cur)
    /\ UNCHANGED <<xs, len, fault, dropped, pc, new_len, drain, g, iter_index,
                   yielded, visits, last_insert, life, lentype, bits, rhs, holder, par>>

NextEq ==
    \/ \E x \in EqVals : EqTryPush(x)
    \/ EqPop
    \/ EqSwap
    \/ EqCompare

SpecEq == InitEq /\ [][NextEq]_vars

-----------------------------------------------------------------------------
(* The runs on NoDrop: the caller makes values that count their drops,     *)
(* wraps each in a NoDrop, takes some out again, drops what it holds and    *)
(* lets the holders go out of scope.                                        *)

NextNoDrop ==
    \/ \E t \in Tokens :     \* NoDrop::new(value)
          /\ holder[t].scope = "none"
          /\ holder' = [holder EXCEPT ![t] = [scope |-> "in", flag |-> "Alive"]]
          /\ life' = [life EXCEPT ![t].went = "stored"]
          /\ op' = Call("new", 0, 0, t, NoItems)
          /\ UNCHANGED <<xs, len, fault, dropped, pc, pre, ret, new_len,
                         drain, g, iter_index, yielded, visits, last_insert,
                         lentype, bits, rhs, par>>
    \/ \E t \in Tokens :     \* into_inner: ptr::read, then mem::forget(self)
          /\ holder[t] = [scope |-> "in", flag |-> "Alive"]
          /\ holder' = [holder EXCEPT ![t].scope = "forgotten"]
          /\ life' = [life EXCEPT ![t].went = "popped"]
          /\ op' = Call("into_inner", 0, 0, t, NoItems)
          /\ UNCHANGED <<xs, len, fault, dropped, pc, pre, ret, new_len,
                         drain, g, iter_index, yielded, visits, last_insert,
                         lentype, bits, rhs, par>>
    \/ \E t \in Tokens :     \* take: mem::replace(&mut self.0, Flag::Dropped)
          /\ holder[t] = [scope |-> "in", flag |-> "Alive"]
          /\ holder' = [holder EXCEPT ![t].flag = "Dropped"]
          /\ life' = [life EXCEPT ![t].went = "popped"]
          /\ op' = Call("take", 0, 0, t, NoItems)
          /\ UNCHANGED <<xs, len, fault, dropped, pc, pre, ret, new_len,
                         drain, g, iter_index, yielded, visits, last_insert,
                         lentype, bits, rhs, par>>
    \/ \E t \in Tokens :     \* the holder goes out of scope
          /\ holder[t].scope = "in"
          /\ LET r == nodrop_drop(holder[t].flag)
             IN  /\ holder' = [holder EXCEPT ![t] =
                                  [scope |-> "gone", flag |-> r.flag]]
                 /\ life' = [life EXCEPT ![t].vec_drops = @ + r.drops]
          /\ op' = Call("drop", 0, 0, t, NoItems)
          /\ UNCHANGED <<xs, len, fault, dropped, pc, pre, ret, new_len,
                         drain, g, iter_index, yielded, visits, last_insert,
                         lentype, bits, rhs, par>>
    \/ \E t \in Tokens : CallerDrop(t)

SpecNoDrop == InitLib /\ [][NextNoDrop]_vars

-----------------------------------------------------------------------------
(* The runs on the historical vectors.                                      *)

NextHist ==
    \/ \E i \in Indices, x \in Values :
           Whole(Call("vec_insert", i, 0, x, NoItems), vec_insert(Start, i, x))
    \/ \E iter \in Inputs :    \* ret: how many items the iterator gave
           LET r == take_extend(Start, CAPACITY - len, iter, 0)
           IN  Whole(Call("extend", 0, 0, Uninit, iter),
                     Res(r.s, [kind |-> "Ok", val |-> r.pulled]))
    \/ PopSetLen
    \/ PopRead
    \/ \E start \in Indices, end \in Indices : DrainRange(start, end)
    \/ DrainNext
    \/ DrainNextBack
    \/ \E k \in 0..CAP :       \* the Drain goes out of scope
           /\ pc = "drain"
           /\ LET r == drain_drop_unwind(Start, drain, k)
              IN  /\ Commit(r.s)
                  /\ ret' = r.ret
                  /\ pc' = IF r.ret = Panic THEN "unwound" ELSE "idle"
                  /\ drain' = IF r.ret = Panic THEN drain ELSE NoDrain
           /\ UNCHANGED <<op, pre, new_len, g, iter_index, yielded, visits,
                         last_insert, life, lentype, bits, rhs, holder, par>>
    \/ /\ pc = "unwound"         \* the owner goes out of scope
       /\ Commit(lib_drop(Cur))
       /\ pc' = "gone"
       /\ UNCHANGED <<ret, op, pre, new_len, drain, g, iter_index, yielded,
                     visits, last_insert, life, lentype, bits, rhs, holder, par>>
    \/ IntoIter
    \/ IntoIterNext
    \/ IntoIterNextBack
    \/ \E k \in 0..CAP, file \in {"vec.rs", "lib.rs"} :
           /\ pc = "into_iter"  \* the IntoIter goes out of scope
           /\ LET r == IF file = "vec.rs"
                       THEN vec_into_iter_drop(Start, iter_index, k)
                       ELSE lib_into_iter_drop(Start, iter_index, k)
              IN  Commit(r.s) /\ ret' = r.ret
           /\ pc' = "gone"
           /\ op' = Call("into_iter_drop", iter_index, len, Uninit, <<file>>)
           /\ UNCHANGED <<pre, new_len, drain, g, iter_index, yielded, visits,
                         last_insert, life, lentype, bits, rhs, holder, par>>

SpecHist == Init /\ [][NextHist]_vars

\* the runs on the oldest ArrayVec, built with overflow checks or without
NextLibInsert ==
    \/ \E i \in Indices, x \in Values, build \in {"debug", "release"} :
           Whole(Call("lib_insert", i, 0, x, <<build>>),
                 lib_insert(Start, i, x, build))
    \/ PopSetLen
    \/ PopRead

SpecLibInsert == Init /\ [][NextLibInsert]_vars

\* the runs of par_extend: the bridge of rayon splits the consumer, the
\* consumers fold their items in any order, the results are reduced.
\* visits is the ghost of the writes: for every slot, the consumers whose
\* folder wrote it, one entry for each write
NextPar ==
    \/ \E l \in 0..MaxPar :    \* par_extend with an iterator of l items
           /\ pc = "idle"
           /\ Commit(Start)
           /\ ret' = Pending
           /\ pc' = "par"
           /\ op' = Call("par_extend", 0, 0, Uninit, 
                      [k \in 1..l |-> ((k - 1) % MaxVal) + 1])
           /\ pre' = as_slice(Cur)
           /\ visits' = [i \in Slots |-> <<>>]
           /\ par' = [NoPar EXCEPT
                        ![1].st = "consumer",
                        ![1].target = reserve_get_tail_slice(Cur, l),
                        ![1].to = l]
           /\ UNCHANGED <<new_len, drain, g, iter_index, yielded,
                         last_insert, life, lentype, bits, rhs, holder>>
    \/ \E n \in DOMAIN par :   \* the bridge splits a consumer that is not full
         \E index \in 1..(par[n].to - par[n].from - 1) :
           /\ pc = "par" /\ par[n].st = "consumer" /\ par[n].target.len > 0
           /\ LET c == split_at(par[n].target, index)
                  mid == par[n].from + index
              IN  par' = [par EXCEPT
                            ![n].st = "split",
                            ![2 * n] = [st |-> "consumer", target |-> c[1],
                                        from |-> par[n].from, to |-> mid,
                                        result |-> NoPar[1].result],
                            ![2 * n + 1] = [st |-> "consumer", target |-> c[2],
                                            from |-> mid, to |-> par[n].to,
                                            result |-> NoPar[1].result]]
           /\ UNCHANGED <<xs, len, fault, dropped, pc, op, pre, ret, new_len,
                         drain, g, iter_index, yielded, visits, last_insert,
                         life, lentype, bits, rhs, holder>>
    \/ \E n \in DOMAIN par :   \* a consumer folds its items: into_folder,
           /\ pc = "par"        \* consume for each item, complete
           /\ par[n].st = "consumer"
           /\ LET nd == par[n]
                  folder == [final_len |-> nd.target.len, wrote |-> <<>>,
                             result |-> [start |-> nd.target.start, len |-> 0]]
                  r == IF nd.target.len = 0
                       THEN [s |-> Cur, f |-> folder, ret |-> Ok]
                       ELSE consume_iter(Cur, folder,
                                         SubSeq(op.items, nd.from + 1, nd.to))
              IN  IF r.ret = Panic
                  THEN \* the unwinding drops every result and what it owns
                       /\ Commit([r.s EXCEPT !.xs = [i \in Slots |->
                                     IF i < len THEN xs[i] ELSE Uninit]])
                       /\ ret' = Panic
                       /\ pc' = "idle"
                       /\ par' = NoPar
                       /\ UNCHANGED visits
                  ELSE /\ Commit(r.s)
                       /\ par' = [par EXCEPT ![n].st = "done",
                                             ![n].result = r.f.result]
                       /\ visits' = [i \in Slots |-> visits[i] \o
                                       [k \in 1..Len(SelectSeq(r.f.wrote,
                                            LAMBDA slot : slot = i)) |-> n]]
                       /\ UNCHANGED <<ret, pc>>
           /\ UNCHANGED <<op, pre, new_len, drain, g, iter_index, yielded,
                         last_insert, life, lentype, bits, rhs, holder>>
    \/ \E n \in DOMAIN par :   \* both halves are done: their results are reduced
           /\ pc = "par" /\ par[n].st = "split"
           /\ par[2 * n].st = "done" /\ par[2 * n + 1].st = "done"
           /\ LET r == reduce(Cur, par[2 * n].result, par[2 * n + 1].result)
              IN  /\ Commit(r.s)
                  /\ par' = [par EXCEPT ![n].st = "done",
                                        ![n].result = r.result,
                                        ![2 * n] = NoPar[1],
                                        ![2 * n + 1] = NoPar[1]]
           /\ UNCHANGED <<pc, op, pre, ret, new_len, drain, g, iter_index,
                         yielded, visits, last_insert, life, lentype, bits,
                         rhs, holder>>
    \/ /\ pc = "par"            \* with_consumer: the assert, then set_len
       /\ par[1].st = "done"
       /\ LET expected_writes == par[1].target.len
              actual_writes == par[1].result.len
          IN  IF actual_writes = expected_writes
              THEN Commit(set_len(Cur, len + expected_writes)) /\ ret' = Ok
              ELSE /\ Commit(drop_in_place(Cur, par[1].result.start,
                                           par[1].result.len))
                   /\ ret' = Panic
       /\ pc' = "idle"
       /\ par' = NoPar
       /\ UNCHANGED <<op, pre, new_len, drain, g, iter_index, yielded, visits,
                     last_insert, life, lentype, bits, rhs, holder>>
    \/ PopSetLen
    \/ PopRead

SpecPar == Init /\ [][NextPar]_vars

-----------------------------------------------------------------------------
(* The runs on ArrayString.                                                 *)

\* ArrayString::new()
InitString ==
    /\ xs = [i \in Slots |-> Uninit]
    /\ len = 0
    /\ op = Call("new", 0, 0, Uninit, NoItems)
    /\ fault = {}
    /\ dropped = <<>>
    /\ pc = "idle"
    /\ pre = <<>>
    /\ ret = Ok
    /\ new_len = 0
    /\ drain = NoDrain
    /\ g = NoGuard
    /\ iter_index = 0
    /\ yielded = NoYield
    /\ visits = <<>>
    /\ last_insert = NoInsert
    /\ life = NoLife
    /\ lentype = DefaultLenType
    /\ bits = NoBits
    /\ rhs = NoRhs
    /\ holder = NoHolder
    /\ par = NoPar

\* try_push(c) up to the match on what encode_utf8 returned; new_len is
\* len + n
StrTryPush(c) ==
    /\ pc = "idle"
    /\ LET r == str_try_push_encode(Start, c)
       IN  /\ Commit(r.s)
           /\ IF r.n = 0
              THEN ret' = Err(c) /\ pc' = "idle" /\ new_len' = 0
              ELSE ret' = Pending /\ pc' = "str_push" /\ new_len' = len + r.n
    /\ op' = Call("try_push", 0, 0, c, NoItems)
    /\ pre' = as_slice(Cur)
    /\ drain' = NoDrain
    /\ g' = NoGuard
    /\ iter_index' = 0
    /\ yielded' = NoYield
    /\ visits' = <<>>
    /\ UNCHANGED <<last_insert, life, lentype, bits, rhs, holder, par>>

\* try_push, the arm Ok(n)
StrTryPushCommit ==
    /\ pc = "str_push"
    /\ Commit(set_len(Cur, new_len))
    /\ ret' = Ok
    /\ pc' = "idle"
    /\ new_len' = 0
    /\ UNCHANGED <<op, pre, drain, g, iter_index, yielded, visits,
                   last_insert, life, lentype, bits, rhs, holder, par>>

NextString ==
    \/ \E c \in Chars : StrTryPush(c)
    \/ StrTryPushCommit
    \* the &str arguments: up to MaxExt chars
    \/ \E cs \in UNION {[1..n -> Chars] : n \in 0..MaxExt} :
           Whole(Call("try_push_str", 0, 0, Uninit, str_bytes(cs)),
                 str_try_push_str(Start, str_bytes(cs)))
    \/ Whole(Call("pop", 0, 0, Uninit, NoItems), str_pop(Start))
    \/ \E n \in Indices :
           Whole(Call("truncate", n, 0, Uninit, NoItems),
                 str_truncate(Start, n))
    \/ \E idx \in Indices :
           Whole(Call("remove", idx, 0, Uninit, NoItems),
                 str_remove(Start, idx))
    \/ Whole(Call("clear", 0, 0, Uninit, NoItems), Res(str_clear(Start), Ok))

SpecString == InitString /\ [][NextString]_vars

-----------------------------------------------------------------------------
\* no primitive ever touched a slot it must not touch
NoFault == fault = {}

\* the slice old[from .. to) of a sequence, with 0-based bounds as in Rust
Slice(q, from, to) == SubSeq(q, from + 1, to)

Idle(name) == pc = "idle" /\ op.name = name

-----------------------------------------------------------------------------
(* Claims.                                                                  *)

\* C1: after every operation of every sequence of operations (those that
\* return an error or panic included) the length satisfies 0 <= len <= CAP.
C1_LenWithinCapacity == 0 <= len /\ len <= CAP

\* an extend that panicked on a surplus item, leaving the vector full
C1_Witness == Idle("extend") /\ ret.kind = "Panic" /\ len = CAP /\ Len(pre) < CAP

\* faults of reading, dropping or referencing a slot that holds no value
ReadFaults == {"read_dead", "read_out_of_buffer", "drop_dead",
               "drop_out_of_buffer", "reference_to_dead"}

\* C2: live-prefix invariant.  Every slot below len holds a live value
\* whenever the owner can reach the vector; once an operation has completed
\* (normally, with an error, by panic) the live slots are exactly those
\* below len; no operation reads, drops or hands out a slot that holds no
\* live value; while a Drain exists the slots it hides (its remaining range
\* and the tail) still hold their values; and a by-value iterator holds
\* exactly the slots [index, len) of the vector it has swallowed.
C2_LivePrefix ==
    /\ pc \notin {"into_iter", "gone"} => \A i \in Slots : i < len => Live(Cur, i)
    /\ pc = "idle" => \A i \in Slots : Live(Cur, i) <=> i < len
    /\ pc = "into_iter" => \A i \in Slots : Live(Cur, i) <=> (iter_index <= i /\ i < len)
    /\ fault \cap ReadFaults = {}
    /\ pc = "drain" =>
          \A i \in Slots :
              \/ (drain.lo <= i /\ i < drain.hi)
              \/ (drain.tail_start <= i /\ i < drain.tail_start + drain.tail_len)
              => Live(Cur, i)

\* a retain whose predicate panicked after one element was dropped and one
\* was kept
C2_Witness ==
    /\ Idle("retain") /\ ret.kind = "Panic"
    /\ Len(dropped) = 1 /\ Len(yielded.front) = 1 /\ len = 2

\* C3: try_push(x) on a full vector returns Err(x) and changes neither
\* length nor contents; on a vector that is not full it writes x to slot
\* len, adds one to len and leaves the slots below the old len as they were.
C3_TryPush ==
    Idle("try_push") =>
        IF Len(pre) = CAP
        THEN ret = Err(op.element) /\ len = CAP /\ as_slice(Cur) = pre
        ELSE /\ ret = Ok
             /\ len = Len(pre) + 1
             /\ xs[Len(pre)] = op.element
             /\ Slice(as_slice(Cur), 0, Len(pre)) = pre

\* a try_push that was rejected by a full vector
C3_Witness == Idle("try_push") /\ ret.kind = "Err" /\ Len(pre) = CAP

\* C4: pop on an empty vector returns None and changes nothing; otherwise
\* the length is decremented first, while the element is still in its slot,
\* and only then the element is read: the value returned is the one that
\* was at index old_len - 1 and the slots below it are unchanged.
C4_Pop ==
    /\ pc = "pop" =>
          /\ len = Len(pre) - 1
          /\ new_len = len
          /\ ret = Pending
          /\ xs[new_len] = pre[Len(pre)]
          /\ as_slice(Cur) = Slice(pre, 0, Len(pre) - 1)
    /\ Idle("pop") =>
          IF Len(pre) = 0
          THEN ret = None /\ len = 0 /\ as_slice(Cur) = pre
          ELSE /\ ret = Some(pre[Len(pre)])
               /\ len = Len(pre) - 1
               /\ as_slice(Cur) = Slice(pre, 0, Len(pre) - 1)

\* a pop that returned the last of at least two elements
C4_Witness == Idle("pop") /\ ret.kind = "Some" /\ Len(pre) >= 2

\* C5: try_insert(index, x) on a full vector with index <= len returns
\* Err(x) and does not change the vector.
C5_TryInsertFull ==
    (Idle("try_insert") /\ Len(pre) = CAP /\ op.index <= Len(pre)) =>
        ret = Err(op.element) /\ len = CAP /\ as_slice(Cur) = pre

\* a try_insert into the middle of a full vector
C5_Witness ==
    /\ Idle("try_insert") /\ Len(pre) = CAP /\ ret.kind = "Err"
    /\ 0 < op.index /\ op.index < CAP

\* C6: insert(index, x) on a vector that is not full, with index <= len,
\* gives old[0..index] ++ [x] ++ old[index..len]; with index > len it
\* panics.
C6_Insert ==
    Idle("insert") =>
        /\ (Len(pre) < CAP /\ op.index <= Len(pre)) =>
              /\ ret = Ok
              /\ len = Len(pre) + 1
              /\ as_slice(Cur) = Slice(pre, 0, op.index) \o <<op.element>>
                                   \o Slice(pre, op.index, Len(pre))
        /\ op.index > Len(pre) => ret = Panic

\* an insert at index == len of a non-empty vector
C6_Witness ==
    Idle("insert") /\ ret.kind = "Ok" /\ op.index = Len(pre) /\ Len(pre) >= 1

Reverse(q) == [i \in 1..Len(q) |-> q[Len(q) + 1 - i]]

\* C7: for start <= end <= len, drain(start..end) hands out the elements
\* old[start..end), each at most once: next from the front in order,
\* next_back from the back in reverse order; once the Drain was dropped the
\* vector is old[0..start] ++ old[end..len], however much was consumed.
C7_Drain ==
    (op.name = "drain" /\ ret.kind # "Panic") =>
        LET nf == Len(yielded.front)
            nb == Len(yielded.back)
        IN  /\ nf + nb <= op.end - op.index
            /\ yielded.front = Slice(pre, op.index, op.index + nf)
            /\ yielded.back = Reverse(Slice(pre, op.end - nb, op.end))
            /\ (pc = "drain" /\ ret.kind = "None") => nf + nb = op.end - op.index
            /\ (pc = "idle" /\ ret.kind = "Ok") =>
                  as_slice(Cur) = Slice(pre, 0, op.index)
                                    \o Slice(pre, op.end, Len(pre))

\* a Drain dropped after one of at least two elements was taken, with a
\* tail behind the range
C7_Witness ==
    /\ Idle("drain") /\ ret.kind = "Ok"
    /\ op.end - op.index >= 2
    /\ Len(yielded.front) + Len(yielded.back) = 1
    /\ Len(pre) > op.end

C9_DrainBounds ==
    (op.name = "drain" /\ (op.index > op.end \/ op.end > Len(pre))) =>
        /\ ret = Panic
        /\ pc = "idle"
        /\ len = Len(pre)
        /\ as_slice(Cur) = pre

\* a drain of a non-empty vector whose end lies past the length
C9_Witness ==
    /\ Idle("drain") /\ ret.kind = "Panic"
    /\ op.index <= op.end /\ op.end > Len(pre) /\ Len(pre) >= 1

\* the slots dropped by the current operation are pairwise distinct
NoDoubleDrop ==
    /\ \A i, j \in 1..Len(dropped) : dropped[i] = dropped[j] => i = j
    /\ fault \cap {"drop_dead", "read_dead"} = {}

RECURSIVE KeptAmong(_)
KeptAmong(n) ==
    IF n = 0 THEN <<>>
    ELSE IF visits[n].verdict = "keep"
         THEN Append(KeptAmong(n - 1), pre[n])
         ELSE KeptAmong(n - 1)

\* the indices the predicate has rejected among the first n calls
RECURSIVE DeletedAmong(_)
DeletedAmong(n) ==
    IF n = 0 THEN <<>>
    ELSE IF visits[n].verdict = "delete"
         THEN Append(DeletedAmong(n - 1), visits[n].index)
         ELSE DeletedAmong(n - 1)

\* C11: a retain in which the predicate never panics calls it once for
\* every live element, in increasing index order, on a reference through
\* which it may change the element; the vector is then the elements it
\* answered true for, as it left them, in order, from index 0, and the
\* length is their number.
C11_Retain ==
    /\ op.name = "retain" => \A k \in 1..Len(visits) : visits[k].index = k - 1
    /\ pc = "retain" => Len(visits) = g.processed_len /\ Len(visits) < Len(pre)
    /\ (Idle("retain") /\ ret = Ok) =>
          /\ Len(visits) = Len(pre)
          /\ as_slice(Cur) = KeptAmong(Len(pre))
          /\ len = Len(KeptAmong(Len(pre)))
          /\ \A i \in Slots : Live(Cur, i) <=> i < len

\* a pass over a full vector that kept the second element only, with the
\* value the predicate stored in it
C11_Witness ==
    /\ Idle("retain") /\ ret = Ok /\ Len(pre) = CAP /\ CAP >= 3
    /\ visits[1].verdict = "delete" /\ visits[2].verdict = "keep"
    /\ \A k \in 3..CAP : visits[k].verdict = "delete"
    /\ as_slice(Cur) = <<MaxVal>>

C13_TryExtendFromSlice ==
    Idle("try_extend_from_slice") =>
        IF Len(op.items) > CAP - Len(pre)
        THEN ret.kind = "Err" /\ len = Len(pre) /\ as_slice(Cur) = pre
        ELSE /\ ret = Ok
             /\ len = Len(pre) + Len(op.items)
             /\ as_slice(Cur) = pre \o op.items

\* a slice of which only a part would have fitted
C13_Witness ==
    /\ Idle("try_extend_from_slice") /\ ret.kind = "Err"
    /\ Len(pre) < CAP /\ Len(pre) >= 1 /\ Len(op.items) = CAP - Len(pre) + 1

\* C14: extend(iter), with an iterator that does not panic itself, returns
\* without panic when the iterator yields no more than the room left, and
\* the items are then appended (with exactly as many as the room left the
\* vector ends full); it panics when the iterator yields one item more
\* than the room left, the vector then being full with the items that
\* fitted.
C14_Extend ==
    (Idle("extend") /\ op.index = -1) =>
        LET room == CAP - Len(pre)
        IN  IF Len(op.items) <= room
            THEN /\ ret = Ok
                 /\ as_slice(Cur) = pre \o op.items
                 /\ Len(op.items) = room => len = CAP
            ELSE /\ ret = Panic
                 /\ len = CAP
                 /\ as_slice(Cur) = pre \o SubSeq(op.items, 1, room)

\* an extend with exactly as many items as there was room, filling the
\* vector
C14_Witness ==
    /\ Idle("extend") /\ op.index = -1 /\ ret = Ok
    /\ Len(op.items) = CAP - Len(pre) /\ Len(op.items) >= 2 /\ len = CAP

\* C15: into_inner returns Ok with the backing array, which holds exactly
\* the live elements in order, if and only if len = CAP; with len < CAP it
\* returns Err with the vector, whose length and contents are unchanged;
\* either way no element is dropped, and none is held twice: after Ok the
\* consumed vector owns nothing.
C15_IntoInner ==
    op.name = "into_inner" =>
        /\ dropped = <<>>
        /\ ret.kind = "Ok" <=> Len(pre) = CAP
        /\ ret.kind = "Ok" =>
              /\ ret.val = pre
              /\ pc = "gone"
              /\ \A i \in Slots : ~Live(Cur, i)
        /\ ret.kind # "Ok" =>
              /\ ret = Err(pre)
              /\ pc = "idle"
              /\ len = Len(pre)
              /\ as_slice(Cur) = pre
              /\ \A i \in Slots : Live(Cur, i) <=> i < len

\* into_inner of a vector one short of full, which is handed back
C15_Witness ==
    /\ op.name = "into_inner" /\ ret.kind = "Err"
    /\ Len(pre) = CAP - 1 /\ len = CAP - 1

\* the slots from, from + 1, .., to - 1
Range(from, to) == [k \in 1..(to - from) |-> from + k - 1]

\* truncate(new_len) with new_len >= len changes nothing; otherwise, once it
\* has returned, the slots [new_len, len) were dropped in index order, the
\* length is new_len and the slots below new_len are as they were
TruncateResult ==
    Idle("truncate") =>
        IF op.index >= Len(pre)
        THEN ret = Ok /\ dropped = <<>> /\ as_slice(Cur) = pre
        ELSE /\ ret = Ok
             /\ dropped = Range(op.index, Len(pre))
             /\ len = op.index
             /\ as_slice(Cur) = Slice(pre, 0, op.index)

\* C16 as stated: truncate(new_len) is a no-op if new_len >= len; otherwise
\* it drops the slots [new_len, len) in index order and THEN sets the
\* length to new_len (the length is the old one for as long as the tail
\* has not been dropped), leaving the slots below new_len unchanged.
C16_Stated ==
    /\ TruncateResult
    /\ (op.name = "truncate" /\ op.index < Len(pre)
          /\ dropped # Range(op.index, Len(pre))) => len = Len(pre)

\* C16, amended: truncate(new_len) is a no-op if new_len >= len; otherwise
\* it FIRST sets the length to new_len and then drops the slots
\* [new_len, len) in index order (while the tail has not been dropped the
\* length is new_len already and the tail is intact), leaving the slots
\* below new_len unchanged.
C16_Truncate ==
    /\ TruncateResult
    /\ pc = "truncate" =>
          /\ op.index < Len(pre)
          /\ len = op.index
          /\ dropped = <<>>
          /\ \A i \in Slots : Live(Cur, i) <=> i < Len(pre)
          /\ [i \in 1..Len(pre) |-> xs[i - 1]] = pre

\* truncate(1) of three elements, with the length set and the tail of two
\* not yet dropped
C16_Witness ==
    /\ pc = "truncate" /\ op.index = 1 /\ Len(pre) = 3
    /\ len = 1 /\ Live(Cur, 1) /\ Live(Cur, 2)

\* the vector has been dropped: no slot holds a value, none was dropped
\* that held none
DroppedClean ==
    /\ len = 0
    /\ \A i \in Slots : ~Live(Cur, i)
    /\ fault = {}

\* C17 as stated: dropping the vector drops exactly the live prefix, every
\* element below len once and no slot from len on, in INCREASING index
\* order.
C17_Stated ==
    (pc = "gone" /\ op.name = "drop") =>
        dropped = Range(0, Len(pre)) /\ DroppedClean

\* C17, amended: dropping the vector drops exactly the live prefix, every
\* element below len once and no slot from len on, in DECREASING index
\* order: the destructor pops until the vector is empty.
C17_Drop ==
    (pc = "gone" /\ op.name = "drop") =>
        dropped = Reverse(Range(0, Len(pre))) /\ DroppedClean

\* a vector of two elements and room for more was dropped: slot 1, then
\* slot 0
C17_Witness ==
    /\ pc = "gone" /\ op.name = "drop"
    /\ Len(pre) = 2 /\ CAP > 2 /\ dropped = <<1, 0>>

\* the slots of the vector that hold the value t
Holding(t) == {i \in Slots : xs[i] = t}

\* C18: every value made for push is dropped at most once at any time, and
\* exactly once when all is over.  A value push returned because the
\* vector was full is not in the vector and is never dropped by it; a
\* popped value has left the vector and is dropped by the caller only,
\* also when the vector is dropped later; a value in the vector sits in
\* one slot below len and, once the vector is dropped, has been dropped by
\* the vector exactly once.
C18_DropOnce ==
    /\ fault = {}
    /\ (Idle("push") /\ Len(pre) = CAP) =>
          /\ ret = Some(op.element)
          /\ as_slice(Cur) = pre
          /\ life[op.element].went = "rejected"
    /\ \A t \in Tokens :
          /\ life[t].vec_drops + life[t].caller_drops <= 1
          /\ life[t].went = "unmade" =>
                /\ Holding(t) = {}
                /\ life[t].vec_drops + life[t].caller_drops = 0
          /\ life[t].went \in {"rejected", "popped"} =>
                /\ Holding(t) = {}
                /\ life[t].vec_drops = 0
          /\ life[t].went = "stored" =>
                /\ life[t].caller_drops = 0
                /\ IF pc = "gone"
                   THEN Holding(t) = {} /\ life[t].vec_drops = 1
                   ELSE /\ Cardinality(Holding(t)) = 1
                        /\ \A i \in Holding(t) : i < len
                        /\ life[t].vec_drops = 0

\* all is over: one value was rejected, one popped, both dropped by the
\* caller, and the vector was dropped with the others in it
C18_Witness ==
    /\ pc = "gone"
    /\ \E t, u \in Tokens :
          /\ life[t].went = "rejected" /\ life[t].caller_drops = 1
          /\ life[u].went = "popped" /\ life[u].caller_drops = 1
    /\ \E t \in Tokens : life[t].went = "stored" /\ life[t].vec_drops = 1
    /\ \A t \in Tokens : life[t].vec_drops + life[t].caller_drops = 1

\* C19: on a vector that is not full, insert(i, x) with i <= len followed
\* by remove(i) returns x and leaves the contents and the length exactly as
\* they were before the insert.
C19_InsertRemove ==
    (Idle("remove") /\ last_insert.valid) =>
        /\ op.index = last_insert.index
        /\ ret = Some(last_insert.element)
        /\ len = Len(last_insert.pre)
        /\ as_slice(Cur) = last_insert.pre
        /\ \A i \in Slots : Live(Cur, i) <=> i < len
        /\ fault = {}

\* [a, b] -> insert(0, x) -> [x, a, b] -> remove(0) -> [a, b], with a # b
C19_Witness ==
    /\ Idle("remove") /\ last_insert.valid
    /\ last_insert.index = 0 /\ Len(last_insert.pre) = 2
    /\ last_insert.pre[1] # last_insert.pre[2]
    /\ ret.kind = "Some"

\* the call found the vector with index >= len and left it as it was
StaleUnchanged(name) ==
    /\ Idle(name) /\ op.index >= Len(pre)
    /\ len = Len(pre) /\ as_slice(Cur) = pre

C21_SwapRemove ==
    /\ \A name \in {"swap_remove", "swap_pop"} :
          (Idle(name) /\ op.index < Len(pre)) =>
              /\ ret = Some(pre[op.index + 1])
              /\ len = Len(pre) - 1
              /\ as_slice(Cur) = [k \in 1..(Len(pre) - 1) |->
                                    IF k = op.index + 1 THEN pre[Len(pre)]
                                    ELSE pre[k]]
              /\ \A i \in Slots : Live(Cur, i) <=> i < len
    /\ (Idle("swap_pop") /\ op.index >= Len(pre)) =>
          ret = None /\ len = Len(pre) /\ as_slice(Cur) = pre

\* swap_remove(0) of three elements whose first and last differ
C21_Witness ==
    /\ Idle("swap_remove") /\ op.index = 0 /\ Len(pre) = 3
    /\ pre[1] # pre[3] /\ ret = Some(pre[1]) /\ xs[0] = pre[3]

\* the bytes q are well-formed UTF-8: a leading byte, then as many
\* continuation bytes as it announces, and so on to the end
RECURSIVE Utf8Valid(_)
Utf8Valid(q) ==
    IF q = <<>> THEN TRUE
    ELSE LET w == utf8_char_width(Head(q))
         IN  /\ ~is_continuation(Head(q))
             /\ Len(q) >= w
             /\ \A k \in 2..w : is_continuation(q[k])
             /\ Utf8Valid(SubSeq(q, w + 1, Len(q)))

\* C22: after every operation of every sequence of operations on the
\* string (try_push, try_push_str, pop, truncate, remove, clear), those
\* that return an error or panic included, and in between the two halves
\* of try_push, the bytes [0, len) are valid UTF-8 and len <= CAP.
C22_StringUtf8 ==
    /\ 0 <= len /\ len <= CAP
    /\ Utf8Valid(as_slice(Cur))
    /\ fault = {}

\* a remove that panicked between the two bytes of a char, with a char
\* behind it
C22_Witness ==
    /\ Idle("remove") /\ ret = Panic /\ op.index = 1
    /\ len = 3 /\ as_slice(Cur) = utf8_bytes(233) \o utf8_bytes(97)

\* C23: try_push(c) on the string: if the encoding of c needs more bytes
\* than the remaining capacity it returns an error carrying c and the
\* visible string (length and bytes [0, len)) is unchanged; otherwise the
\* bytes of c are all in place beyond the length before the length is
\* advanced by the encoded size, so that every state shows either the old
\* string or the old string followed by the whole of c.
C23_StrTryPush ==
    LET c == op.element
        room == CAP - Len(pre)
    IN  /\ Idle("try_push") /\ len_utf8(c) > room
              => ret = Err(c) /\ as_slice(Cur) = pre
        /\ pc = "str_push"
              => /\ op.name = "try_push" /\ len_utf8(c) <= room
                 /\ as_slice(Cur) = pre
                 /\ new_len = len + len_utf8(c)
                 /\ bytes_of(Cur, len, new_len) = utf8_bytes(c)
        /\ Idle("try_push") /\ len_utf8(c) <= room
              => ret = Ok /\ as_slice(Cur) = pre \o utf8_bytes(c)

\* a two-byte char encoded behind a one-byte string, its length not yet
\* counted
C23_Witness ==
    /\ pc = "str_push" /\ op.element = 233 /\ pre = utf8_bytes(97)
    /\ len = 1 /\ new_len = 3

\* C24: try_push_str(s) on the string: if s is longer than the remaining
\* capacity it returns an error carrying the whole of s and the string is
\* unchanged (nothing of s is appended); otherwise all bytes of s follow
\* the old contents and the length has grown by the length of s.
C24_StrTryPushStr ==
    Idle("try_push_str") =>
        IF Len(op.items) > CAP - Len(pre)
        THEN ret = Err(op.items) /\ as_slice(Cur) = pre /\ len = Len(pre)
        ELSE /\ ret = Ok
             /\ as_slice(Cur) = pre \o op.items
             /\ len = Len(pre) + Len(op.items)

\* a string of two chars refused though its first char would have fit
C24_Witness ==
    /\ Idle("try_push_str") /\ ret.kind = "Err"
    /\ op.items = utf8_bytes(97) \o utf8_bytes(233)
    /\ pre = utf8_bytes(233)

\* the offset i of the bytes q falls between two complete char encodings
OnBoundary(q, i) ==
    /\ i <= Len(q)
    /\ Utf8Valid(SubSeq(q, 1, i))
    /\ Utf8Valid(SubSeq(q, i + 1, Len(q)))

\* C25: truncate(new_len) on the string: if new_len <= len and new_len is
\* not on a char boundary it panics and the string is unchanged; if
\* new_len <= len and is on a boundary the length becomes new_len and the
\* bytes [0, new_len) are unchanged; if new_len > len it has no effect and
\* does not panic.
C25_StrTruncate ==
    LET n == op.index
    IN  Idle("truncate") =>
            IF n > Len(pre) THEN ret = Ok /\ as_slice(Cur) = pre
            ELSE IF OnBoundary(pre, n)
                 THEN /\ ret = Ok /\ len = n
                      /\ as_slice(Cur) = SubSeq(pre, 1, n)
                 ELSE ret = Panic /\ as_slice(Cur) = pre

\* a truncate that panicked in the middle of a three-byte char
C25_Witness ==
    /\ Idle("truncate") /\ ret = Panic /\ op.index = 2
    /\ pre = utf8_bytes(8364)

\* C26: remove(idx) on the string panics, leaving the string unchanged, if
\* idx > len, if idx is not a char boundary, or if idx = len; otherwise it
\* returns the char that starts at idx, the bytes of that char and no
\* others are gone, the bytes behind it have moved left to idx, and the
\* length is smaller by the encoded size of the char.
C26_StrRemove ==
    LET idx == op.index
        l == Len(pre)
    IN  Idle("remove") =>
            IF idx >= l \/ ~OnBoundary(pre, idx)
            THEN ret = Panic /\ as_slice(Cur) = pre
            ELSE /\ ret.kind = "Some"
                 /\ LET w == len_utf8(ret.val)
                    IN  /\ SubSeq(pre, idx + 1, idx + w) = utf8_bytes(ret.val)
                        /\ len = l - w
                        /\ as_slice(Cur) = SubSeq(pre, 1, idx)
                                           \o SubSeq(pre, idx + w + 1, l)

\* a two-byte char removed from in front of a one-byte char
C26_Witness ==
    /\ Idle("remove") /\ ret = Some(233) /\ op.index = 0
    /\ pre = utf8_bytes(233) \o utf8_bytes(97)
    /\ as_slice(Cur) = utf8_bytes(97)

C28_Write ==
    Idle("write") =>
        LET room == CAP - Len(pre)
            n == IF room <= Len(op.items) THEN room ELSE Len(op.items)
        IN  /\ ret = [kind |-> "Ok", val |-> n]
            /\ as_slice(Cur) = pre \o SubSeq(op.items, 1, n)
            /\ len = Len(pre) + n
            /\ fault = {}

\* two bytes offered to a vector with room for one
C28_Witness ==
    /\ Idle("write") /\ Len(pre) = CAP - 1 /\ Len(op.items) = 2
    /\ ret.val = 1 /\ len = CAP

\* q comes before r in the order of sequences: at the first place where
\* they differ q has the smaller element, or q ends there and r goes on
Before(q, r) ==
    \E k \in 1..(Len(r)) :
        /\ \A j \in 1..(k - 1) : j <= Len(q) /\ q[j] = r[j]
        /\ k = Len(q) + 1 \/ (k <= Len(q) /\ q[k] < r[k])

\* C29: equality, ordering and hash of two vectors depend on their live
\* slices [0, len) only: two vectors with equal live sequences compare
\* equal, are Equal in the order and feed the hasher the same, whatever
\* their memory holds in the slots >= len; vectors of different lengths or
\* with a differing live element are unequal, and ordered as their live
\* sequences are.
C29_EqOrdHash ==
    Idle("eq") =>
        LET a == [k \in 1..len |-> bits[k - 1]]
            b == [k \in 1..rhs.len |-> rhs.xs[k - 1]]
            r == ret.val
        IN  /\ a = [k \in 1..len |-> xs[k - 1]]
            /\ a = b => r.eq /\ r.cmp = "Equal" /\ r.hash_self = r.hash_other
            /\ a # b => ~r.eq /\ r.cmp # "Equal"
            /\ r.cmp = "Less" <=> Before(a, b)
            /\ r.cmp = "Greater" <=> Before(b, a)

\* two vectors with the same live element, found equal, one with a popped
\* element left behind it in memory and the other without
C29_Witness ==
    /\ Idle("eq") /\ ret.val.eq /\ len = 1 /\ rhs.len = 1
    /\ bits[1] # rhs.xs[1] /\ bits[1] # Uninit
    /\ ret.val.hash_self = ret.val.hash_other

\* what holds of a by-value iterator over the elements pre that has handed
\* out yielded so far
IntoIterState ==
    LET nf == Len(yielded.front)
        nb == Len(yielded.back)
        n == Len(pre)
    IN  /\ nf + nb <= n
        /\ yielded.front = SubSeq(pre, 1, nf)
        /\ yielded.back = Reverse(SubSeq(pre, n - nb + 1, n))
        /\ ret.kind = "None" => nf + nb = n
        /\ pc = "into_iter" =>
              /\ into_iter_size_hint(Cur, iter_index)
                     = <<n - nf - nb, Some(n - nf - nb)>>
              /\ \A i \in Slots : Live(Cur, i) <=> (nf <= i /\ i < n - nb)
        /\ pc = "gone" => dropped = Range(nf, n - nb) /\ DroppedClean
        /\ fault = {}

\* C30: the by-value iterator hands out every element of the vector at most
\* once however next and next_back are interleaved, next the elements from
\* the front in index order and next_back those from the back in reverse
\* index order; once the two ends have met both return None; size_hint is
\* exact, the number of elements not yet handed out; and its drop disposes
\* of exactly the elements not yet handed out, each once.
C30_IntoIter ==
    [][/\ op'.name = "into_iter" => IntoIterState'
       /\ (pc = "into_iter" /\ pc' = "into_iter"
             /\ Len(yielded.front) + Len(yielded.back) = Len(pre))
          => ret'.kind = "None" /\ yielded' = yielded
       /\ (pc = "into_iter" /\ pc' = "into_iter"
             /\ Len(yielded.front) + Len(yielded.back) < Len(pre))
          => /\ ret'.kind = "Some"
             /\ Len(yielded'.front) + Len(yielded'.back)
                   = Len(yielded.front) + Len(yielded.back) + 1]_vars

\* an iterator over three elements dropped after one next and one
\* next_back: the element in the middle is the one disposed of
C30_Witness ==
    /\ pc = "gone" /\ op.name = "into_iter" /\ Len(pre) = 3
    /\ Len(yielded.front) = 1 /\ Len(yielded.back) = 1
    /\ dropped = <<1>>

\* C31: a NoDrop that goes out of scope never runs the destructor of the
\* value it holds or held; a value handed back by into_inner (or take) is
\* the caller's, dropped by the caller once and never by the holder, and a
\* value left in the holder is not dropped at all.
C31_NoDrop ==
    \A t \in Tokens :
        holder[t].scope # "none" =>
            /\ life[t].vec_drops = 0
            /\ life[t].caller_drops <= 1
            /\ life[t].went = "stored" => life[t].caller_drops = 0
            /\ holder[t].scope = "forgotten" => life[t].went = "popped"

\* one value taken out by into_inner and dropped by the caller, another left
\* in its holder, which is gone
C31_Witness ==
    \E t, u \in Tokens :
        /\ holder[t].scope = "forgotten" /\ life[t].caller_drops = 1
        /\ holder[u] = [scope |-> "gone", flag |-> "Dropped"]
        /\ life[u].went = "stored"
        /\ life[u].vec_drops + life[u].caller_drops = 0

\* C32: insert of vec.rs on top of raw.rs: with index <= len on a full
\* vector the element is inserted at index and the former last element is
\* returned (index = CAP excepted, where the element itself is returned and
\* nothing changes); with index > len the element itself is returned and
\* nothing changes; with index <= len on a vector that is not full the
\* element is inserted and None returned.
C32_VecInsert ==
    LET i == op.index
        x == op.element
        n == Len(pre)
    IN  Idle("vec_insert") =>
          /\ fault = {}
          /\ IF i > n \/ i = CAP
             THEN ret = Some(x) /\ as_slice(Cur) = pre
             ELSE IF n = CAP
             THEN /\ ret = Some(pre[n])
                  /\ as_slice(Cur) = SubSeq(pre, 1, i) \o <<x>>
                                     \o SubSeq(pre, i + 1, n - 1)
             ELSE /\ ret = None
                  /\ as_slice(Cur) = SubSeq(pre, 1, i) \o <<x>>
                                     \o SubSeq(pre, i + 1, n)

\* an insert in the middle of a full vector that pushed the last element out
C32_Witness ==
    /\ Idle("vec_insert") /\ Len(pre) = CAP /\ op.index = 1
    /\ ret = Some(pre[CAP]) /\ len = CAP

\* C33: the extend of raw.rs and lib.rs, which vec.rs and FromIterator hand
\* on to: it takes min(room left, items there are) items from the iterator,
\* stores them in their order behind what was there, never panics, reports
\* nothing when items are left over, and takes no item that it does not
\* store, so the iterator's next item is the first one that was not stored.
C33_TakeExtend ==
    LET room == CAP - Len(pre)
        took == min(room, Len(op.items))
    IN  Idle("extend") =>
          /\ fault = {}
          /\ ret = [kind |-> "Ok", val |-> took]
          /\ as_slice(Cur) = pre \o SubSeq(op.items, 1, took)
          /\ len = Len(pre) + took

\* an extend with more items than room: one item is left in the iterator
C33_Witness ==
    /\ Idle("extend") /\ Len(pre) = CAP - 1 /\ Len(op.items) = 2
    /\ ret.val = 1 /\ len = CAP

\* C39: insert of lib.rs keeps the live prefix for every index: after the
\* call every slot below len holds a value that was put there, the count
\* len - index of the shift did not go below zero (no panic of the
\* subtraction, no copy past the buffer), and no slot without a value came
\* to lie below len.
C39_LibInsert ==
    Idle("lib_insert") =>
      /\ ret.kind # "Panic"
      /\ fault = {}
      /\ \A i \in 0..(len - 1) : xs[i] # Uninit

\* insert(1, x) into the empty vector, built without overflow checks: the
\* length became 1 and slot 0 holds nothing
C39_Witness ==
    /\ Idle("lib_insert") /\ pre = <<>> /\ op.index = 1
    /\ op.items = <<"release">> /\ len = 1 /\ xs[0] = Uninit

\* C38: try_insert checks the index before the capacity: with index > len
\* it panics, on a full vector too, and leaves the vector as it was; an Err
\* is returned only with index <= len (and then the vector is full), never
\* for an index out of bounds.
C38_TryInsertOrder ==
    Idle("try_insert") =>
      /\ op.index > Len(pre) => ret = Panic /\ as_slice(Cur) = pre
      /\ ret.kind = "Err" => op.index <= Len(pre) /\ Len(pre) = CAP

\* try_insert(CAP + 1, x) on a full vector: the panic, not the error
C38_Witness ==
    /\ Idle("try_insert") /\ Len(pre) = CAP /\ op.index = CAP + 1
    /\ ret = Panic

\* C34: the guard of extend_from_iter: on every way out (the iterator is
\* exhausted, the capacity is reached, the panic on a surplus item, a panic
\* of the iterator's next()) the length is the old length plus the number
\* of elements written, and these are the first items the iterator yielded,
\* in their order, in the slots from the old length to the new one.
C34_ExtendGuard ==
    LET old_len == Len(pre)
        yields == IF op.index = -1 THEN Len(op.items)
                  ELSE min(op.index, Len(op.items))
        written == min(yields, CAP - old_len)
    IN  (Idle("extend") /\ Len(pre) <= CAP) =>
          /\ len = old_len + written
          /\ \A k \in 1..written : xs[old_len + k - 1] = op.items[k]
          /\ \A i \in 0..(old_len - 1) : xs[i] = pre[i + 1]
          /\ \A i \in len..(CAP - 1) : xs[i] = Uninit
          /\ ret = Panic <=> (yields > CAP - old_len
                              \/ (op.index # -1 /\ op.index <= Len(op.items)))

\* an iterator whose next() panicked after it had yielded one item
C34_Witness ==
    /\ Idle("extend") /\ op.index = 1 /\ Len(op.items) = 2 /\ ret = Panic
    /\ len = Len(pre) + 1 /\ len < CAP

\* C35: a destructor of an element panics while an IntoIter is dropped: no
\* element is dropped twice, because the length of the inner vector is 0
\* before the first of the remaining elements is dropped and the drop of
\* the inner vector that follows drops nothing: the elements dropped are
\* among those the iterator still held, each once.
C35_IntoIterDropPanic ==
    (op.name = "into_iter_drop" /\ ret = Panic) =>
      /\ NoDoubleDrop
      /\ \A k \in 1..Len(dropped) :
             op.index <= dropped[k] /\ dropped[k] < op.end

\* the IntoIter of lib.rs had yielded one element of three when the
\* destructor of the next panicked: the inner vector dropped all three
C35_Witness ==
    /\ op.name = "into_iter_drop" /\ ret = Panic /\ op.items = <<"lib.rs">>
    /\ op.index = 1 /\ op.end = CAP /\ Len(dropped) > CAP - 1

C40_SpliceDrop ==
    (Idle("splice")
       /\ Len(pre) - (op.end - op.index) + Len(op.items) <= CAP) =>
      /\ ret = Ok
      /\ as_slice(Cur) = Slice(pre, 0, op.index) \o op.items
                         \o Slice(pre, op.end, Len(pre))

\* two items for a range of one, with a tail of one: the second item is
\* not in the vector
C40_Witness ==
    /\ Idle("splice") /\ Len(pre) = 2 /\ op.index = 0 /\ op.end = 1
    /\ Len(op.items) = 2 /\ ret = Ok /\ len = 2

\* the pieces of the target the consumers of a par_extend hold
Pieces == {n \in DOMAIN par : par[n].st \in {"consumer", "done"}}

\* C37: par_extend with an indexed parallel iterator of L items into a
\* vector with room for R more ends without panic with len = old_len +
\* min(L, R), the items stored in their order; however the consumer is
\* split, the consumers hold disjoint pieces of the target tail, and every
\* slot of [old_len, old_len + min(L, R)) is written once, by one folder.
C37_ParExtend ==
    LET old_len == Len(pre)
        took == min(Len(op.items), CAP - old_len)
    IN  op.name = "par_extend" =>
          /\ fault = {}
          /\ \A i \in Slots :
                 /\ Len(visits[i]) <= 1
                 /\ Len(visits[i]) = 1 => old_len <= i /\ i < old_len + took
          /\ \A n, m \in Pieces :
                 n # m => \/ par[n].target.start + par[n].target.len
                               <= par[m].target.start
                          \/ par[m].target.start + par[m].target.len
                               <= par[n].target.start
                          \/ par[n].target.len = 0
                          \/ par[m].target.len = 0
          /\ \A n \in Pieces :
                 par[n].target.len > 0 =>
                     /\ old_len <= par[n].target.start
                     /\ par[n].target.start + par[n].target.len
                          <= old_len + took
          /\ pc = "idle" =>
                 /\ ret = Ok
                 /\ len = old_len + took
                 /\ as_slice(Cur) = pre \o SubSeq(op.items, 1, took)
                 /\ \A i \in old_len..(old_len + took - 1) :
                        Len(visits[i]) = 1

\* three items for room of two, split after the first item and the rest
\* split again: the last consumer got the empty slice and wrote nothing
C37_Witness ==
    /\ Idle("par_extend") /\ Len(op.items) = 3 /\ Len(pre) = CAP - 2
    /\ ret = Ok /\ len = CAP
    /\ visits[CAP - 2] = <<2>> /\ visits[CAP - 1] = <<6>>
====
